---------------------------- MODULE Spec2Model ----------------------------
(***************************************************************************)
(* Model of the real-time event gateway of itemseek2-backend:              *)
(*   src/src/services/websocket/socketServer.ts   (WebSocketService)       *)
(*   src/src/services/websocket/inventoryEvents.ts (inventory and user     *)
(*                                                  event handlers)        *)
(*   src/unnamed/part_001                          (notification handlers) *)
(*                                                                         *)
(* A gateway instance owns its sockets, its room index (socket.io's        *)
(* in-memory adapter) and its connectedUsers registry.  Instances share    *)
(* only the Redis pub/sub bus.  Timestamps (new Date()) carried in         *)
(* payloads are not modelled.                                              *)
(***************************************************************************)
EXTENDS Integers, Sequences, FiniteSets, TLC

VARIABLES
    cluster,         \* the gateway instances that are running
    users,           \* users table: id -> row
    sessions,        \* sessions table: id -> row
    sock,            \* every socket ever opened, by socket id (1..Len(sock))
    connectedUsers,  \* per instance: userId -> set of socket ids
    inbox,           \* per instance: messages the Redis subscriber has not handled yet
    busPlaced,       \* number of messages placed on the bus so far
    publishCalls,    \* number of publish* calls made by local code so far
    lastOp,          \* the operation that ran last
    lastEmits,       \* the socket.io emissions of the operation that ran last
    items,           \* inventory_items table: id -> row
    http,            \* the HTTP request being served, or the last one served
    redis,           \* the Redis server's keys and the connections to it
    inbound,         \* per socket: packets the client has sent, not yet dispatched
    errorLog,        \* per instance: number of logger.error entries written
    service,         \* per instance: the module's socketService and what was registered
    suspended,       \* the HTTP requests waiting at an await while another is served
    now              \* the clock, in seconds since the sessions of Init were signed

vars == <<cluster, users, sessions, sock, connectedUsers, inbox,
          busPlaced, publishCalls, lastOp, lastEmits, items, http, redis, inbound,
          errorLog, service, suspended, now>>

(***************************************************************************)
(* Bounds of the model.                                                    *)
(***************************************************************************)
MaxSockets == 3
MaxRoomSockets == 2
MaxPublish == 2
MaxBus == 1

Instances == {"A", "B"}
Orgs == {"o1", "o2"}

(***************************************************************************)
(* The store the handshake reads.  u1 is a manager of o1, u2 a plain user  *)
(* of o1, u3 the admin of o2, u4 a deactivated user; u0 has no row.         *)
(* Session s4 is past its expiresAt; s0 has no row.                        *)
(***************************************************************************)
InitUsers ==
    [u \in {"u1", "u2", "u3", "u4"} |->
        CASE u = "u1" -> [organizationId |-> "o1", role |-> "manager",   isActive |-> TRUE]
          [] u = "u2" -> [organizationId |-> "o1", role |-> "user",      isActive |-> TRUE]
          [] u = "u3" -> [organizationId |-> "o2", role |-> "org_admin", isActive |-> TRUE]
          [] u = "u4" -> [organizationId |-> "o1", role |-> "user",      isActive |-> FALSE]]

\* The same people with the remaining roles: a system admin, a viewer, and a
\* manager in the other organization.
AltUsers ==
    [u \in {"u1", "u2", "u3", "u4"} |->
        CASE u = "u1" -> [organizationId |-> "o1", role |-> "system_admin", isActive |-> TRUE]
          [] u = "u2" -> [organizationId |-> "o1", role |-> "viewer",       isActive |-> TRUE]
          [] u = "u3" -> [organizationId |-> "o2", role |-> "manager",      isActive |-> TRUE]
          [] u = "u4" -> [organizationId |-> "o1", role |-> "user",         isActive |-> FALSE]]

\* jwt.sign({ userId, sessionId }, secret): the token is a function of the
\* payload, the secret (sig: "ok" for JWT_SECRET, "refresh" for
\* JWT_REFRESH_SECRET, "bad" for any other) and iat, the second of signing;
\* two tokens signed for one session in one second are the same string.
JwtAt(sig, u, s, iat) ==
    [kind |-> "jwt", sig |-> sig, userId |-> u, sessionId |-> s, iat |-> iat]

Jwt(sig, u, s) == JwtAt(sig, u, s, 0)

NoToken == [kind |-> "missing", sig |-> "bad", userId |-> "", sessionId |-> "", iat |-> 0]

(***************************************************************************)
(* The inventory_items table and the HTTP request in service.              *)
(***************************************************************************)
Item(organizationId, sku, quantity, minQuantity) ==
    [organizationId |-> organizationId, sku |-> sku,
     quantity |-> quantity, minQuantity |-> minQuantity]

NoItem == Item("", "", 0, 0)

\* One item of o1, in stock and above its minimum.
InitItems == [id \in {1} |-> Item("o1", "k1", 2, 1)]

\* A request body; a property the client left out reads -1 (numbers) or "".
Body(valid, sku, quantity, minQuantity) ==
    [valid |-> valid, sku |-> sku, quantity |-> quantity, minQuantity |-> minQuantity]

NoBody == Body(TRUE, "", -1, -1)

\* pc: idle -> write -> emit -> done; status 0 until the response is sent.
\* item is the row the handler read, written the row it writes, logged whether
\* the catch around the emitter calls ran; token is the bearer token presented
\* and error the error property of a 401 response.  replaced is the quantity
\* the table held for the item when the handler's write ran (history; -1: none).
NoRequest ==
    [route |-> "", pc |-> "idle", userId |-> "", itemId |-> 0, body |-> NoBody,
     item |-> NoItem, written |-> NoItem, movement |-> FALSE, status |-> 0,
     logged |-> FALSE, token |-> NoToken, error |-> "", replaced |-> -1]

\* The module-level socketService of a process (0: null, n: the n-th
\* WebSocketService constructed), the number constructed, the 'message'
\* listeners registered on subscriber and the 'connection' listeners
\* registered on an io, the outcome of the last initializeWebSocket /
\* getWebSocketService call, and the number of initializeWebSocket calls made
\* (history).
NoService ==
    [socketService |-> 0, constructed |-> 0, messageListeners |-> 0,
     connectionListeners |-> 0, returned |-> 0, error |-> "", calls |-> 0]

\* new WebSocketService(httpServer): setupRedisSubscriptions registers one
\* 'message' listener, setupSocketHandlers one 'connection' listener.
construct(sv) ==
    [sv EXCEPT !.socketService = sv.constructed + 1,
               !.constructed = @ + 1,
               !.messageListeners = @ + 1,
               !.connectionListeners = @ + 1]

\* Variant: every call constructs a service.
initializeWebSocketAlwaysNew(sv) ==
    [construct(sv) EXCEPT !.returned = construct(sv).socketService, !.error = ""]

\* initializeWebSocket(httpServer)
initializeWebSocket(sv) ==
    LET s1 == IF sv.socketService = 0 THEN construct(sv) ELSE sv
    IN  [s1 EXCEPT !.returned = s1.socketService, !.error = ""]

\* getWebSocketService()
getWebSocketService(sv) ==
    IF sv.socketService = 0
      THEN [sv EXCEPT !.returned = 0, !.error = "WebSocket service not initialized"]
      ELSE [sv EXCEPT !.returned = sv.socketService, !.error = ""]

\* Every process has run its bootstrap, which calls initializeWebSocket once.
ServiceUp == [i \in Instances |-> [initializeWebSocket(NoService) EXCEPT !.calls = 1]]

\* logger.error has written nothing yet.
NoErrors == [i \in Instances |-> 0]

(***************************************************************************)
(* The Redis server as the handlers use it, and the process's connections  *)
(* to it.  cmds holds, per gateway instance whose traffic is followed, the  *)
(* commands written to its connection and not yet executed; Redis executes *)
(* the commands of one connection in the order written.  A key that does   *)
(* not exist reads as the empty list or set.  pushed counts the LPUSHes     *)
(* executed on a key and tags each entry (history, not stored by Redis).   *)
(***************************************************************************)
NoRedis == [cmds |-> <<>>, lists |-> <<>>, sets |-> <<>>, ttl |-> <<>>,
            pushed |-> <<>>, conn |-> <<>>]

\* A command; then names the command the handler writes once this one is
\* answered ("" when it awaits nothing).
Cmd(op, key, arg, stop, then) ==
    [op |-> op, key |-> key, arg |-> arg, stop |-> stop, then |-> then]

\* A row of the sessions table as the login that created it left it: both
\* tokens signed for the session in the same second, expiresAt passed or not.
SessionRow(u, s, expired) ==
    [userId |-> u, token |-> Jwt("ok", u, s), refreshToken |-> Jwt("refresh", u, s),
     expired |-> expired, refreshExpired |-> FALSE]

InitSessions ==
    [s \in {"s1", "s2", "s3", "s4", "s5", "s6"} |->
        CASE s = "s1" -> SessionRow("u1", "s1", FALSE)
          [] s = "s2" -> SessionRow("u2", "s2", FALSE)
          [] s = "s3" -> SessionRow("u3", "s3", FALSE)
          [] s = "s4" -> SessionRow("u1", "s4", TRUE)
          [] s = "s5" -> SessionRow("u4", "s5", FALSE)
          [] s = "s6" -> SessionRow("u0", "s6", FALSE)]

\* Credentials of principals in good standing.
ValidTokens == {Jwt("ok", "u1", "s1"), Jwt("ok", "u2", "s2"), Jwt("ok", "u3", "s3")}

\* Every credential a client may present.
Tokens ==
    ValidTokens \cup
    { NoToken,
      Jwt("bad", "u1", "s1"),     \* signature does not verify
      Jwt("ok", "u1", "s4"),      \* expired session
      Jwt("ok", "u1", "s0"),      \* session row missing
      Jwt("ok", "u4", "s5"),      \* inactive user
      Jwt("ok", "u0", "s6") }     \* user row missing

(***************************************************************************)
(* Room names (template strings of the source).                            *)
(***************************************************************************)
OrgRoom(o) == "org:" \o o

UserRoom(u) == "user:" \o u

AdminRoom(o) == "org:" \o o \o ":admins"

ManagerRoom(o) == "org:" \o o \o ":managers"

NotifyRoom(c) == "notify:" \o c

(***************************************************************************)
(* Sockets.                                                                *)
(***************************************************************************)
SocketIds == DOMAIN sock

NewSocket(i, tok) ==
    [inst |-> i, st |-> "handshake", token |-> tok,
     userId |-> "", organizationId |-> "", role |-> "", rooms |-> {}]

\* socket.connected
Live(sk, s) == sk[s].st = "connected"

\* this.io.sockets.adapter.rooms.get(room) on instance i
Members(sk, i, room) ==
    {s \in DOMAIN sk : sk[s].inst = i /\ Live(sk, s) /\ room \in sk[s].rooms}

\* socket.join(room)
Join(sk, s, room) == [sk EXCEPT ![s].rooms = @ \cup {room}]

(***************************************************************************)
(* Emissions: what one emit call hands to which sockets.                   *)
(***************************************************************************)
\* io.to(room).emit(event, data) on instance i
IoTo(sk, i, room, event, data) ==
    [room |-> room, event |-> event, data |-> data, to |-> Members(sk, i, room)]

\* Variant: io.to(room) in place of socket.to(room).
SocketToWholeRoom(sk, s, room, event, data) ==
    [room |-> room, event |-> event, data |-> data,
     to |-> Members(sk, sk[s].inst, room)]

\* socket.to(room).emit(event, data): the room without the sending socket
SocketTo(sk, s, room, event, data) ==
    [room |-> room, event |-> event, data |-> data,
     to |-> Members(sk, sk[s].inst, room) \ {s}]

\* io.emit(event, data): every connected socket of instance i
IoEmit(sk, i, event, data) ==
    [room |-> "*", event |-> event, data |-> data,
     to |-> {s \in DOMAIN sk : sk[s].inst = i /\ Live(sk, s)}]

\* socket.emit(event, data): the socket itself
SocketEmit(sk, s, event, data) ==
    [room |-> "socket", event |-> event, data |-> data, to |-> {s}]

(***************************************************************************)
(* WebSocketService: registry and broadcast API.                           *)
(***************************************************************************)
\* Variant: the new socket id replaces the ids already under the key.
addConnectedUserReplaces(cu, userId, socketId) ==
    [u \in DOMAIN cu \cup {userId} |-> IF u = userId THEN {socketId} ELSE cu[u]]

addConnectedUser(cu, userId, socketId) ==
    IF userId \in DOMAIN cu
      THEN [cu EXCEPT ![userId] = @ \cup {socketId}]
      ELSE [u \in DOMAIN cu \cup {userId} |->
               IF u = userId THEN {socketId} ELSE cu[u]]

\* Variant: the emptied set is left under its key.
removeConnectedUserKeepsKey(cu, userId, socketId) ==
    IF userId \in DOMAIN cu
      THEN [cu EXCEPT ![userId] = @ \ {socketId}]
      ELSE cu

removeConnectedUser(cu, userId, socketId) ==
    IF userId \in DOMAIN cu
      THEN IF cu[userId] \ {socketId} = {}
             THEN [u \in DOMAIN cu \ {userId} |-> cu[u]]
             ELSE [cu EXCEPT ![userId] = @ \ {socketId}]
      ELSE cu

isUserConnected(cu, userId) == userId \in DOMAIN cu

broadcastToOrganization(sk, i, organizationId, event, data) ==
    IoTo(sk, i, OrgRoom(organizationId), event, data)

\* Variant: the event is sent to every connection of the instance.
broadcastToUserViaIoEmit(sk, i, userId, event, data) ==
    IoEmit(sk, i, event, data)

broadcastToUser(sk, i, userId, event, data) ==
    IoTo(sk, i, UserRoom(userId), event, data)


(***************************************************************************)
(* The authentication middleware (io.use), cut at its two awaits.          *)
(***************************************************************************)
\* if (!token) return next(new Error('Authentication required'))
tokenPresent(tok) == tok.kind /= "missing"

\* jwt.verify(token, JWT_SECRET) does not throw
jwtVerify(tok) == tok.kind = "jwt" /\ tok.sig = "ok"

\* Variant: the expiry comparison is left out.
sessionAcceptedNoExpiry(sess, tok) == tok.sessionId \in DOMAIN sess

\* !( !session || session.expiresAt < new Date() )
sessionAccepted(sess, tok) ==
    /\ tok.sessionId \in DOMAIN sess
    /\ ~sess[tok.sessionId].expired

\* !( !user || !user.isActive )
userAccepted(us, tok) ==
    /\ tok.userId \in DOMAIN us
    /\ us[tok.userId].isActive

\* next(new Error(...)): socket.io answers with the error and discards the socket.
Refuse(sk, s) == [sk EXCEPT ![s] = [NewSocket(sk[s].inst, NoToken) EXCEPT !.st = "refused"]]

\* A decoded bus message; absent properties read as undefined.
Data(organizationId, userId, type, targetId, event, payload) ==
    [organizationId |-> organizationId, userId |-> userId, type |-> type,
     targetId |-> targetId, event |-> event, payload |-> payload]

\* A message on the bus.  data is what JSON.parse makes of its text; parses is
\* FALSE for a text JSON.parse throws on.  origin and dup are history for the
\* properties, not on the wire: the publishing instance, and the sockets that
\* were handed the same event by a local broadcast of that instance just
\* before.
Msg(channel, data, origin, dup) ==
    [channel |-> channel, data |-> data, origin |-> origin, dup |-> dup,
     parses |-> TRUE]

NoMsg == Msg("", Data("undefined", "undefined", "undefined", "undefined", "", ""), "", {})

OpMsg(kind, s, i, name, msg) ==
    [kind |-> kind, sock |-> s, inst |-> i, name |-> name, msg |-> msg]

Op(kind, s, i, name) == OpMsg(kind, s, i, name, NoMsg)

\* A client opens a socket to instance i presenting tok; the middleware runs
\* up to the session query.
HandshakeStart(s, i, tok) ==
    /\ s = Len(sock) + 1
    /\ i \in cluster
    /\ LET sk0 == Append(sock, NewSocket(i, tok)) IN
       IF ~tokenPresent(tok)
         THEN /\ sock' = Refuse(sk0, s)
              /\ lastOp' = Op("refused", s, i, "Authentication required")
       ELSE IF ~jwtVerify(tok)
         THEN /\ sock' = Refuse(sk0, s)
              /\ lastOp' = Op("refused", s, i, "Invalid token")
         ELSE /\ sock' = [sk0 EXCEPT ![s].st = "await_session"]
              /\ lastOp' = Op("handshake", s, i, "session query")
    /\ lastEmits' = <<>>
    /\ UNCHANGED <<now, suspended, service, errorLog, redis, inbound, items, http, cluster, users, sessions, connectedUsers, inbox, busPlaced, publishCalls>>

\* The session query returns.
HandshakeSession(s) ==
    /\ s \in SocketIds
    /\ sock[s].st = "await_session"
    /\ IF ~sessionAccepted(sessions, sock[s].token)
         THEN /\ sock' = Refuse(sock, s)
              /\ lastOp' = Op("refused", s, sock[s].inst, "Session expired")
         ELSE /\ sock' = [sock EXCEPT ![s].st = "await_user"]
              /\ lastOp' = Op("handshake", s, sock[s].inst, "user query")
    /\ lastEmits' = <<>>
    /\ UNCHANGED <<now, suspended, service, errorLog, redis, inbound, items, http, cluster, users, sessions, connectedUsers, inbox, busPlaced, publishCalls>>

\* The user query returns; on success the principal is attached and next() called.
HandshakeUser(s) ==
    /\ s \in SocketIds
    /\ sock[s].st = "await_user"
    /\ LET tok == sock[s].token IN
       IF ~userAccepted(users, tok)
         THEN /\ sock' = Refuse(sock, s)
              /\ lastOp' = Op("refused", s, sock[s].inst, "User not found or inactive")
         ELSE /\ sock' = [sock EXCEPT ![s].st = "authed",
                                      ![s].userId = tok.userId,
                                      ![s].organizationId = users[tok.userId].organizationId,
                                      ![s].role = users[tok.userId].role]
              /\ lastOp' = Op("handshake", s, sock[s].inst, "next")
    /\ lastEmits' = <<>>
    /\ UNCHANGED <<now, suspended, service, errorLog, redis, inbound, items, http, cluster, users, sessions, connectedUsers, inbox, busPlaced, publishCalls>>

(***************************************************************************)
(* The connection handler and the disconnect handler.                      *)
(***************************************************************************)
\* Variant: the manager room is joined whatever the role.
roleRoomsManagerForAll(role, org) ==
    (IF role = "org_admin" \/ role = "system_admin" THEN {AdminRoom(org)} ELSE {}) \cup
    {ManagerRoom(org)}

\* Variant: the manager room is joined by managers only.
roleRoomsNotAdditive(role, org) ==
    (IF role = "org_admin" \/ role = "system_admin" THEN {AdminRoom(org)} ELSE {}) \cup
    (IF role = "manager" THEN {ManagerRoom(org)} ELSE {})

\* handleUserEvents: "Join role-specific rooms"
roleRooms(role, org) ==
    (IF role = "org_admin" \/ role = "system_admin" THEN {AdminRoom(org)} ELSE {}) \cup
    (IF role = "manager" \/ role = "org_admin" \/ role = "system_admin"
       THEN {ManagerRoom(org)} ELSE {})

\* io.on('connection', ...): registry entry, org and personal room, the
\* 'user:online' broadcast, then the three handle*Events calls.
onConnection(sk, cu, s) ==
    LET u   == sk[s].userId
        o   == sk[s].organizationId
        sk1 == [sk EXCEPT ![s].st = "connected",
                          ![s].rooms = {OrgRoom(o), UserRoom(u)}]
        on  == broadcastToOrganization(sk1, sk[s].inst, o, "user:online", [userId |-> u])
        sk2 == [sk1 EXCEPT ![s].rooms = @ \cup roleRooms(sk[s].role, o)]
    IN  [sock |-> sk2, cu |-> addConnectedUser(cu, u, s), emits |-> <<on>>]

\* socket.on('disconnect', ...); socket.io has left every room before it runs.
onDisconnect(sk, cu, s) ==
    LET u   == sk[s].userId
        o   == sk[s].organizationId
        sk1 == [sk EXCEPT ![s].st = "closed", ![s].rooms = {}]
        cu1 == removeConnectedUser(cu, u, s)
    IN  [sock |-> sk1, cu |-> cu1,
         emits |-> IF ~isUserConnected(cu1, u)
                     THEN <<broadcastToOrganization(sk1, sk[s].inst, o, "user:offline",
                                                    [userId |-> u])>>
                     ELSE <<>>]

Connection(s) ==
    /\ s \in SocketIds
    /\ sock[s].st = "authed"
    /\ LET i == sock[s].inst
           r == onConnection(sock, connectedUsers[i], s)
       IN /\ sock' = r.sock
          /\ connectedUsers' = [connectedUsers EXCEPT ![i] = r.cu]
          /\ lastEmits' = r.emits
          /\ lastOp' = Op("connection", s, i, "connection")
    /\ UNCHANGED <<now, suspended, service, errorLog, redis, inbound, items, http, cluster, users, sessions, inbox, busPlaced, publishCalls>>

\* The client closes, the server closes, or the keepalive times out.
Disconnect(s) ==
    /\ s \in SocketIds
    /\ sock[s].st = "connected"
    /\ LET i == sock[s].inst
           r == onDisconnect(sock, connectedUsers[i], s)
       IN /\ sock' = r.sock
          /\ connectedUsers' = [connectedUsers EXCEPT ![i] = r.cu]
          /\ lastEmits' = r.emits
          /\ lastOp' = Op("disconnect", s, i, "disconnect")
    /\ UNCHANGED <<now, suspended, service, errorLog, redis, inbound, items, http, cluster, users, sessions, inbox, busPlaced, publishCalls>>

(***************************************************************************)
(* Specification of one gateway instance: handshakes, connections and      *)
(* disconnections, with every kind of credential.                          *)
(***************************************************************************)
InitGateway ==
    /\ sessions = InitSessions
    /\ sock = <<>>
    /\ connectedUsers = [i \in Instances |-> <<>>]
    /\ inbox = [i \in Instances |-> <<>>]
    /\ busPlaced = 0
    /\ publishCalls = 0
    /\ lastOp = Op("init", 0, "A", "init")
    /\ lastEmits = <<>>
    /\ items = InitItems
    /\ http = NoRequest
    /\ redis = NoRedis
    /\ errorLog = NoErrors
    /\ service = ServiceUp
    /\ suspended = <<>>
    /\ now = 1
    /\ inbound = <<>>

Init ==
    /\ cluster = {"A"}
    /\ users = InitUsers
    /\ InitGateway

Next ==
    \/ \E s \in 1..MaxSockets, i \in Instances, tok \in Tokens : HandshakeStart(s, i, tok)
    \/ \E s \in 1..MaxSockets : HandshakeSession(s)
    \/ \E s \in 1..MaxSockets : HandshakeUser(s)
    \/ \E s \in 1..MaxSockets : Connection(s)
    \/ \E s \in 1..MaxSockets : Disconnect(s)

Spec == Init /\ [][Next]_vars


(***************************************************************************)
(* Inbound client events (socket.on handlers of handleInventoryEvents,     *)
(* handleUserEvents and handleNotificationEvents).  A client argument is   *)
(* [v, userId]: v is its content, userId the value of a "userId" property  *)
(* the client put in an object argument ("" when it put none).             *)
(***************************************************************************)
\* shape tells an object or string argument from a list and from no argument.
PlainArg == [v |-> "x", userId |-> "", shape |-> "object"]

\* { userId: socket.userId, ...arg }: a property of arg replaces the one before it
spreadAfter(userId, arg) == IF arg.userId /= "" THEN arg.userId ELSE userId

\* Events whose handler is socket.to(`org:${organizationId}`).emit(...)
OrgRoomEvents ==
    { "inventory:filter:update", "inventory:item:editing", "inventory:item:editing:done",
      "inventory:bulk:start", "inventory:lowstock:acknowledge",
      "user:presence:update", "user:typing:start", "user:typing:stop" }

ClientEvents ==
    OrgRoomEvents \cup
    { "inventory:subscribe", "inventory:search", "user:activity", "user:location:update",
      "notification:read", "notifications:readall", "notification:action" }

\* The event name a handler emits for an inbound event name.
outEvent(name) ==
    CASE name = "inventory:subscribe"            -> "inventory:subscribed"
      [] name = "inventory:search"               -> "inventory:search:results"
      [] name = "inventory:filter:update"        -> "inventory:filter:changed"
      [] name = "inventory:item:editing"         -> "inventory:item:locked"
      [] name = "inventory:item:editing:done"    -> "inventory:item:unlocked"
      [] name = "inventory:bulk:start"           -> "inventory:bulk:inprogress"
      [] name = "inventory:lowstock:acknowledge" -> "inventory:lowstock:acknowledged"
      [] name = "user:activity"                  -> "user:activity:update"
      [] name = "user:presence:update"           -> "user:presence:changed"
      [] name = "user:typing:start"              -> "user:typing"
      [] name = "user:typing:stop"               -> "user:typing"
      [] name = "user:location:update"           -> "user:location:changed"
      [] name = "notifications:readall"          -> "notifications:allread"
      [] name = "notifications:subscribe"        -> "notifications:subscribed"
      [] name = "notification:action"            -> "notification:action:performed"
      [] OTHER                                   -> ""

\* The emissions of the handler of inbound event `name` on socket s.
onClientEvent(sk, s, name, arg) ==
    LET u  == sk[s].userId
        o  == sk[s].organizationId
        i  == sk[s].inst
        by == [userId |-> u, arg |-> arg.v]
        sp == [userId |-> spreadAfter(u, arg), arg |-> arg.v]
    IN  CASE name \in {"inventory:subscribe", "inventory:search", "notifications:readall"}
               -> <<SocketEmit(sk, s, outEvent(name), [userId |-> "", arg |-> arg.v])>>
          [] name \in {"inventory:filter:update", "inventory:item:editing",
                       "inventory:item:editing:done", "inventory:bulk:start",
                       "inventory:lowstock:acknowledge"}
               -> <<SocketTo(sk, s, OrgRoom(o), outEvent(name), by)>>
          [] name \in {"user:presence:update", "user:typing:start", "user:typing:stop"}
               -> <<SocketTo(sk, s, OrgRoom(o), outEvent(name), sp)>>
          [] name = "user:activity"
               -> <<IoTo(sk, i, AdminRoom(o), outEvent(name), by)>>
          [] name = "user:location:update"
               -> <<IoTo(sk, i, ManagerRoom(o), outEvent(name), sp)>>
          [] name = "notification:action"
               -> <<IoTo(sk, i, AdminRoom(o), outEvent(name), sp)>>
          [] OTHER -> <<>>

\* Variant: the channel name is joined as it comes, without the notify: prefix.
subscribeRoomsNoPrefix(channels) == {channels[k] : k \in DOMAIN channels}

\* Variant: the channel name is joined too, beside its notify: room.
subscribeRoomsAlsoRaw(channels) ==
    {NotifyRoom(channels[k]) : k \in DOMAIN channels} \cup
    {channels[k] : k \in DOMAIN channels}

\* socket.on('notifications:subscribe', channels => ...): the rooms joined
subscribeRooms(channels) == {NotifyRoom(channels[k]) : k \in DOMAIN channels}

\* Redis keys of the handlers.
ActivityKey(o) == "activity:" \o o

ReadKey(u) == "notifications:read:" \o u

\* redis.ltrim(key, 0, 99)
ltrimStop == 99

NoArg == [userId |-> "", arg |-> ""]

\* Variant: the list is never trimmed.
handlerCommandsNoTrim(sk, s, name, arg) ==
    IF name = "user:activity"
      THEN << Cmd("lpush", ActivityKey(sk[s].organizationId),
                  [userId |-> sk[s].userId, arg |-> arg.v], 0, ""),
              Cmd("expire", ActivityKey(sk[s].organizationId), NoArg, 0, "") >>
      ELSE <<>>

\* The Redis commands the handler of `name` writes before it returns or
\* reaches its first await.
handlerCommands(sk, s, name, arg) ==
    LET u == sk[s].userId
        o == sk[s].organizationId
    IN  CASE name = "user:activity"
               -> << Cmd("lpush", ActivityKey(o), [userId |-> u, arg |-> arg.v], 0, ""),
                     Cmd("ltrim", ActivityKey(o), NoArg, ltrimStop, ""),
                     Cmd("expire", ActivityKey(o), NoArg, 0, "") >>
          [] name = "notification:read"
               -> << Cmd("sadd", ReadKey(u), [userId |-> u, arg |-> arg.v], 0, "expire") >>
          [] OTHER -> <<>>

\* Commands written to the connection of instance i (dropped from the model
\* when the traffic of that connection is not followed).
issue(rd, i, cs) ==
    IF i \in DOMAIN rd.cmds THEN [rd EXCEPT !.cmds[i] = @ \o cs] ELSE rd

\* The handler throws a TypeError before it emits: channels.forEach on a
\* value that is not an array, data.action on undefined.
handlerThrows(name, arg) ==
    \/ name = "notifications:subscribe" /\ arg.shape /= "list"
    \/ name = "notification:action" /\ arg.shape = "undefined"

\* socket.io calls the listeners from process.nextTick with no try around
\* them: a throw is an uncaught exception, which ends the process unless an
\* 'uncaughtException' listener is installed that logs and goes on.
UncaughtOutcomes == {"exit", "logged"}

\* The process of instance i ends: its sockets close with it.
processExit(sk, i) ==
    [s \in DOMAIN sk |->
        IF sk[s].inst = i /\ sk[s].st \notin {"refused", "closed"}
          THEN [sk[s] EXCEPT !.st = "closed", !.rooms = {}]
          ELSE sk[s]]

\* What lastOp keeps of the argument of an inbound event: its shape.
ArgSeen(arg) == [NoMsg EXCEPT !.data.payload = arg.shape]

\* The handler of inbound event `name` runs on socket s with argument arg.
Handle(s, name, arg) ==
    /\ s \in SocketIds
    /\ sock[s].st = "connected"
    /\ name = "notifications:subscribe" => handlerThrows(name, arg)
    /\ LET i == sock[s].inst IN
       IF handlerThrows(name, arg)
         THEN \E out \in UncaughtOutcomes :
                 /\ lastEmits' = <<>>
                 /\ lastOp' = OpMsg(IF out = "exit" THEN "exit" ELSE "thrown", s, i, name,
                                    ArgSeen(arg))
                 /\ IF out = "exit"
                      THEN /\ sock' = processExit(sock, i)
                           /\ cluster' = cluster \ {i}
                           /\ connectedUsers' = [connectedUsers EXCEPT ![i] = <<>>]
                      ELSE UNCHANGED <<sock, cluster, connectedUsers>>
                 /\ UNCHANGED redis
         ELSE /\ lastEmits' = onClientEvent(sock, s, name, arg)
              /\ lastOp' = OpMsg("client", s, i, name, ArgSeen(arg))
              /\ redis' = issue(redis, i, handlerCommands(sock, s, name, arg))
              /\ UNCHANGED <<sock, cluster, connectedUsers>>
    /\ UNCHANGED <<now, suspended, service, errorLog, items, http, users, sessions, inbox, busPlaced, publishCalls>>

\* The packet is dispatched as soon as it arrives.
ClientEvent(s, name, arg) ==
    /\ Handle(s, name, arg)
    /\ UNCHANGED inbound

NotificationsSubscribe(s, channels) ==
    /\ s \in SocketIds
    /\ sock[s].st = "connected"
    /\ sock' = [sock EXCEPT ![s].rooms = @ \cup subscribeRooms(channels)]
    /\ lastEmits' = <<SocketEmit(sock', s, "notifications:subscribed",
                                 [userId |-> "", arg |-> "channels"])>>
    /\ lastOp' = Op("client", s, sock[s].inst, "notifications:subscribe")
    /\ UNCHANGED <<now, suspended, service, errorLog, redis, inbound, items, http, cluster, users, sessions, connectedUsers, inbox, busPlaced, publishCalls>>

(***************************************************************************)
(* Emitters called by the routes after a write (io.to(...).emit).          *)
(***************************************************************************)
OrgEmitters ==
    { "emitInventoryCreated", "emitLowStockAlert", "emitUserCreated",
      "sendNotificationToManagers", "sendNotificationToAdmins" }

\* The emissions of emitter `name` called on instance i for organization o.
orgEmitter(sk, i, name, o, payload) ==
    CASE name = "emitInventoryCreated"
           -> <<IoTo(sk, i, OrgRoom(o), "inventory:item:created", payload)>>
      [] name = "emitLowStockAlert"
           -> <<IoTo(sk, i, OrgRoom(o), "inventory:lowstock:alert", payload)>>
      [] name = "emitUserCreated"
           -> <<IoTo(sk, i, AdminRoom(o), "user:created", payload)>>
      [] name = "sendNotificationToManagers"
           -> <<IoTo(sk, i, ManagerRoom(o), "notification:new", payload)>>
      [] name = "sendNotificationToAdmins"
           -> <<IoTo(sk, i, AdminRoom(o), "notification:new", payload)>>
      [] OTHER -> <<>>

\* emitPasswordChanged(io, userId)
emitPasswordChanged(sk, i, userId) ==
    <<IoTo(sk, i, UserRoom(userId), "user:password:changed", "changed")>>

\* broadcastSystemAlert(io, alert)
broadcastSystemAlert(sk, i, payload) ==
    <<IoEmit(sk, i, "notification:system:alert", payload)>>

OrgEmitterCall(i, name, o) ==
    /\ i \in cluster
    /\ lastEmits' = orgEmitter(sock, i, name, o, "p")
    /\ lastOp' = Op("emitter", 0, i, name)
    /\ UNCHANGED <<now, suspended, service, errorLog, redis, inbound, items, http, cluster, users, sessions, sock, connectedUsers, inbox,
                   busPlaced, publishCalls>>

PasswordChangedCall(i, u) ==
    /\ i \in cluster
    /\ lastEmits' = emitPasswordChanged(sock, i, u)
    /\ lastOp' = Op("emitter", 0, i, "emitPasswordChanged")
    /\ UNCHANGED <<now, suspended, service, errorLog, redis, inbound, items, http, cluster, users, sessions, sock, connectedUsers, inbox,
                   busPlaced, publishCalls>>

SystemAlertCall(i) ==
    /\ i \in cluster
    /\ lastEmits' = broadcastSystemAlert(sock, i, "p")
    /\ lastOp' = Op("emitter", 0, i, "broadcastSystemAlert")
    /\ UNCHANGED <<now, suspended, service, errorLog, redis, inbound, items, http, cluster, users, sessions, sock, connectedUsers, inbox,
                   busPlaced, publishCalls>>

(***************************************************************************)
(* Specification of one gateway instance serving authenticated clients:    *)
(* connections, inbound client events and emitter calls.                   *)
(***************************************************************************)
\* Channel lists a client asks to subscribe to, room-like names included.
ChannelLists == { <<"org:o2", "org:o2:managers">> }

NextRooms ==
    \/ \E s \in 1..MaxRoomSockets, i \in Instances, tok \in ValidTokens :
           HandshakeStart(s, i, tok)
    \/ \E s \in 1..MaxRoomSockets : HandshakeSession(s)
    \/ \E s \in 1..MaxRoomSockets : HandshakeUser(s)
    \/ \E s \in 1..MaxRoomSockets : Connection(s)
    \/ \E s \in 1..MaxRoomSockets : Disconnect(s)
    \/ \E s \in 1..MaxRoomSockets, name \in ClientEvents : ClientEvent(s, name, PlainArg)
    \/ \E s \in 1..MaxRoomSockets, l \in ChannelLists : NotificationsSubscribe(s, l)
    \/ \E i \in Instances, name \in OrgEmitters, o \in Orgs : OrgEmitterCall(i, name, o)
    \/ \E i \in Instances, u \in DOMAIN users : PasswordChangedCall(i, u)
    \/ \E i \in Instances : SystemAlertCall(i)

SpecRooms == Init /\ [][NextRooms]_vars


(***************************************************************************)
(* The relay: publish* methods and the Redis subscriber.                   *)
(***************************************************************************)
\* JSON.parse(JSON.stringify(v)): a Date becomes its ISO string.
json(v) == IF v = "Date" THEN "iso" ELSE v

\* redis.publish('inventory:updates', JSON.stringify({organizationId, event, payload, ...}))
publishInventoryUpdate(organizationId, event, payload) ==
    [channel |-> "inventory:updates",
     data |-> Data(organizationId, "undefined", "undefined", "undefined", event, json(payload))]

\* redis.publish('user:updates', JSON.stringify({userId, event, payload, ...}))
publishUserUpdate(userId, event, payload) ==
    [channel |-> "user:updates",
     data |-> Data("undefined", userId, "undefined", "undefined", event, json(payload))]

\* redis.publish('notifications', JSON.stringify({type, targetId, event, payload, ...}))
publishNotification(type, targetId, event, payload) ==
    [channel |-> "notifications",
     data |-> Data("undefined", "undefined", type, targetId, event, json(payload))]

\* Variant: every notification is sent to all local connections.
broadcastNotificationAllGlobal(sk, i, data) ==
    <<IoEmit(sk, i, data.event, data.payload)>>

broadcastNotification(sk, i, data) ==
    CASE data.type = "organization"
           -> <<broadcastToOrganization(sk, i, data.targetId, data.event, data.payload)>>
      [] data.type = "user"
           -> <<broadcastToUser(sk, i, data.targetId, data.event, data.payload)>>
      [] data.type = "global"
           -> <<IoEmit(sk, i, data.event, data.payload)>>
      [] OTHER -> <<>>

\* Variant: the subscriber also publishes what it received.
onRedisMessageRepublishes(sk, i, channel, data) ==
    [emits |->
        CASE channel = "inventory:updates"
               -> <<broadcastToOrganization(sk, i, data.organizationId, data.event, data.payload)>>
          [] channel = "user:updates"
               -> <<broadcastToUser(sk, i, data.userId, data.event, data.payload)>>
          [] channel = "notifications"
               -> broadcastNotification(sk, i, data)
          [] OTHER -> <<>>,
     pubs |-> <<[channel |-> channel, data |-> data]>>]

\* subscriber.on('message', (channel, message) => ...): the local broadcasts it
\* makes and the messages it places on the bus.
onRedisMessage(sk, i, channel, data) ==
    [emits |->
        CASE channel = "inventory:updates"
               -> <<broadcastToOrganization(sk, i, data.organizationId, data.event, data.payload)>>
          [] channel = "user:updates"
               -> <<broadcastToUser(sk, i, data.userId, data.event, data.payload)>>
          [] channel = "notifications"
               -> broadcastNotification(sk, i, data)
          [] OTHER -> <<>>,
     pubs |-> <<>>]

\* The room a bus message is meant for ("*": every socket).
targetRoom(channel, data) ==
    CASE channel = "inventory:updates" -> OrgRoom(data.organizationId)
      [] channel = "user:updates" -> UserRoom(data.userId)
      [] channel = "notifications" /\ data.type = "organization" -> OrgRoom(data.targetId)
      [] channel = "notifications" /\ data.type = "user" -> UserRoom(data.targetId)
      [] OTHER -> "*"

\* Redis hands a published message to every subscribed instance, the
\* publisher's own subscriber connection included.
Deliver(box, ms) ==
    [j \in Instances |-> IF j \in cluster THEN box[j] \o ms ELSE box[j]]

\* The sockets of instance i that the operation before handed this very event.
HandedLocally(i, wire) ==
    IF /\ lastOp.kind \in {"api", "emitter"}
       /\ lastOp.inst = i
       /\ Len(lastEmits) = 1
       /\ lastEmits[1].room = targetRoom(wire.channel, wire.data)
       /\ lastEmits[1].event = wire.data.event
       /\ json(lastEmits[1].data) = wire.data.payload
      THEN lastEmits[1].to
      ELSE {}

Publish(i, wire) ==
    /\ i \in cluster
    /\ publishCalls < MaxPublish
    /\ \A j \in cluster : Len(inbox[j]) < MaxBus
    /\ publishCalls' = publishCalls + 1
    /\ busPlaced' = busPlaced + 1
    /\ inbox' = Deliver(inbox, <<Msg(wire.channel, wire.data, i, HandedLocally(i, wire))>>)
    /\ lastEmits' = <<>>
    /\ lastOp' = Op("publish", 0, i, wire.channel)
    /\ UNCHANGED <<now, suspended, service, errorLog, redis, inbound, items, http, cluster, users, sessions, sock, connectedUsers>>

PublishInventoryUpdate(i, o, event, payload) ==
    Publish(i, publishInventoryUpdate(o, event, payload))

PublishUserUpdate(i, u, event, payload) ==
    Publish(i, publishUserUpdate(u, event, payload))

PublishNotification(i, type, targetId, event, payload) ==
    Publish(i, publishNotification(type, targetId, event, payload))

\* Variant: the listener without its try/catch.
subscriberOnMessageNoCatch(sk, i, m, raises) ==
    LET error == ~m.parses \/
                 (raises /\ onRedisMessage(sk, i, m.channel, m.data).emits /= <<>>)
    IN  IF error
          THEN [emits |-> <<>>, pubs |-> <<>>, logged |-> FALSE, thrown |-> TRUE]
          ELSE [emits |-> onRedisMessage(sk, i, m.channel, m.data).emits,
                pubs |-> onRedisMessage(sk, i, m.channel, m.data).pubs,
                logged |-> FALSE, thrown |-> FALSE]

\* subscriber.on('message', (channel, message) => { try { JSON.parse; switch }
\* catch (error) { logger.error(...) } }).  raises: the broadcast the switch
\* calls throws (each case calls one, so nothing was emitted before it).
\* logged: the catch ran; thrown: an error left the listener.
subscriberOnMessage(sk, i, m, raises) ==
    LET error == ~m.parses \/
                 (raises /\ onRedisMessage(sk, i, m.channel, m.data).emits /= <<>>)
    IN  IF error
          THEN [emits |-> <<>>, pubs |-> <<>>, logged |-> TRUE, thrown |-> FALSE]
          ELSE [emits |-> onRedisMessage(sk, i, m.channel, m.data).emits,
                pubs |-> onRedisMessage(sk, i, m.channel, m.data).pubs,
                logged |-> FALSE, thrown |-> FALSE]

\* What n listeners that each emit es emit, one listener after the other.
Repeated(es, n) == [k \in 1..(Len(es) * n) |-> es[((k - 1) % Len(es)) + 1]]

\* The subscriber of instance i handles the oldest message it was handed:
\* the connection calls every 'message' listener registered on it.  An error
\* that leaves a listener is an uncaught exception of the process.
SubscriberCallback(i, raises) ==
    /\ i \in cluster
    /\ inbox[i] /= <<>>
    /\ LET m == Head(inbox[i])
           r == subscriberOnMessage(sock, i, m, raises)
           n == service[i].messageListeners
       IN IF r.thrown
            THEN \E out \in UncaughtOutcomes :
                    /\ lastEmits' = <<>>
                    /\ lastOp' = OpMsg(IF out = "exit" THEN "exit" ELSE "thrown",
                                       0, i, m.channel, m)
                    /\ IF out = "exit"
                         THEN /\ sock' = processExit(sock, i)
                              /\ cluster' = cluster \ {i}
                              /\ connectedUsers' = [connectedUsers EXCEPT ![i] = <<>>]
                              /\ inbox' = [inbox EXCEPT ![i] = <<>>]
                         ELSE /\ inbox' = [inbox EXCEPT ![i] = Tail(@)]
                              /\ UNCHANGED <<sock, cluster, connectedUsers>>
                    /\ UNCHANGED <<busPlaced, errorLog>>
            ELSE /\ inbox' = Deliver([inbox EXCEPT ![i] = Tail(@)],
                                     [k \in DOMAIN Repeated(r.pubs, n) |->
                                         Msg(Repeated(r.pubs, n)[k].channel,
                                             Repeated(r.pubs, n)[k].data, i, {})])
                 /\ busPlaced' = busPlaced + Len(r.pubs) * n
                 /\ lastEmits' = Repeated(r.emits, n)
                 /\ lastOp' = OpMsg(IF r.logged THEN "relay error" ELSE "relay",
                                    0, i, m.channel, m)
                 /\ errorLog' = [errorLog EXCEPT ![i] = @ + (IF r.logged THEN n ELSE 0)]
                 /\ UNCHANGED <<sock, cluster, connectedUsers>>
    /\ UNCHANGED <<now, suspended, service, redis, inbound, items, http, users, sessions, publishCalls>>

\* A message whose broadcast does not throw.
SubscriberMessage(i) == SubscriberCallback(i, FALSE)

\* Local code calls the broadcast API of instance i.
BroadcastToOrganizationCall(i, o, event, payload) ==
    /\ i \in cluster
    /\ lastEmits' = <<broadcastToOrganization(sock, i, o, event, payload)>>
    /\ lastOp' = Op("api", 0, i, "broadcastToOrganization")
    /\ UNCHANGED <<now, suspended, service, errorLog, redis, inbound, items, http, cluster, users, sessions, sock, connectedUsers, inbox,
                   busPlaced, publishCalls>>

(***************************************************************************)
(* Specification of two gateway instances on one bus.  It starts with      *)
(* three clients connected: u1 (manager of o1) and u3 (admin of o2) on A,  *)
(* u2 (user of o1) on B.                                                   *)
(***************************************************************************)
Authed(i, tok) ==
    [NewSocket(i, tok) EXCEPT !.st = "authed",
                              !.userId = tok.userId,
                              !.organizationId = InitUsers[tok.userId].organizationId,
                              !.role = InitUsers[tok.userId].role]

RelayClients ==
    LET sk0 == << Authed("A", Jwt("ok", "u1", "s1")),
                  Authed("B", Jwt("ok", "u2", "s2")),
                  Authed("A", Jwt("ok", "u3", "s3")) >>
        r1 == onConnection(sk0, <<>>, 1)
        r2 == onConnection(r1.sock, <<>>, 2)
        r3 == onConnection(r2.sock, r1.cu, 3)
    IN  [sock |-> r3.sock, cu |-> [i \in Instances |-> IF i = "A" THEN r3.cu ELSE r2.cu]]

InitRelay ==
    /\ cluster = Instances
    /\ users = InitUsers
    /\ sessions = InitSessions
    /\ sock = RelayClients.sock
    /\ connectedUsers = RelayClients.cu
    /\ inbox = [i \in Instances |-> <<>>]
    /\ busPlaced = 0
    /\ publishCalls = 0
    /\ lastOp = Op("init", 0, "A", "init")
    /\ lastEmits = <<>>
    /\ items = InitItems
    /\ http = NoRequest
    /\ redis = NoRedis
    /\ errorLog = NoErrors
    /\ service = ServiceUp
    /\ suspended = <<>>
    /\ now = 1
    /\ inbound = <<>>

NextRelay ==
    \/ \E s \in 1..Len(RelayClients.sock) : Disconnect(s)
    \/ \E i \in Instances, o \in Orgs : PublishInventoryUpdate(i, o, "evt", "Date")
    \/ \E i \in Instances : PublishUserUpdate(i, "u2", "evt", "p")
    \/ \E i \in Instances, type \in {"organization", "user", "global"} :
           PublishNotification(i, type,
                               CASE type = "organization" -> "o1"
                                 [] type = "user" -> "u2"
                                 [] OTHER -> "undefined",
                               "evt", "p")
    \/ \E i \in Instances : SubscriberMessage(i)
    \/ \E i \in Instances, o \in Orgs : BroadcastToOrganizationCall(i, o, "evt", "Date")
    \/ \E i \in Instances, o \in Orgs : OrgEmitterCall(i, "emitInventoryCreated", o)

SpecRelay == InitRelay /\ [][NextRelay]_vars


(***************************************************************************)
(* Specification of one gateway instance under either role assignment:     *)
(* connections, subscriptions and the traffic of the role rooms.           *)
(***************************************************************************)
RoleRoomEvents == {"user:location:update", "user:activity", "notification:action"}

InitRoles ==
    /\ cluster = {"A"}
    /\ users \in {InitUsers, AltUsers}
    /\ InitGateway

NextRoles ==
    \/ \E s \in 1..MaxRoomSockets, i \in Instances, tok \in ValidTokens :
           HandshakeStart(s, i, tok)
    \/ \E s \in 1..MaxRoomSockets : HandshakeSession(s)
    \/ \E s \in 1..MaxRoomSockets : HandshakeUser(s)
    \/ \E s \in 1..MaxRoomSockets : Connection(s)
    \/ \E s \in 1..MaxRoomSockets : Disconnect(s)
    \/ \E s \in 1..MaxRoomSockets, name \in RoleRoomEvents : ClientEvent(s, name, PlainArg)
    \/ \E s \in 1..MaxRoomSockets, l \in ChannelLists : NotificationsSubscribe(s, l)
    \/ \E i \in Instances, o \in Orgs :
           OrgEmitterCall(i, "sendNotificationToManagers", o)

SpecRoles == InitRoles /\ [][NextRoles]_vars


(***************************************************************************)
(* Properties.                                                             *)
(***************************************************************************)
LiveSockets == {s \in SocketIds : Live(sock, s)}

\* The live connections of principal u on instance i.
LiveOf(i, u) == {s \in LiveSockets : sock[s].inst = i /\ sock[s].userId = u}

Registered(s) ==
    \E i \in Instances : \E u \in DOMAIN connectedUsers[i] : s \in connectedUsers[i][u]

Emitted(event) == {k \in DOMAIN lastEmits : lastEmits[k].event = event}

\* The credential is missing, does not verify, names a missing or expired
\* session, or names a missing or inactive user (read off the store itself).
CredentialInvalid(tok) ==
    \/ tok.kind = "missing"
    \/ tok.sig /= "ok"
    \/ tok.sessionId \notin DOMAIN sessions
    \/ sessions[tok.sessionId].expired
    \/ tok.userId \notin DOMAIN users
    \/ ~users[tok.userId].isActive

\* C1: a connection attempt with an invalid credential is never connected,
\* never in connectedUsers, never in a room, and no 'user:online' is
\* broadcast for it.
C1_InvalidCredentialNeverRegistered ==
    \A s \in SocketIds :
        CredentialInvalid(sock[s].token) =>
            /\ sock[s].st \notin {"authed", "connected"}
            /\ ~Registered(s)
            /\ sock[s].rooms = {}
            /\ ~(lastOp.sock = s /\ Emitted("user:online") /= {})

\* C1 witness: an attempt was just refused for its inactive user while
\* another client is connected and registered.
C1_Witness ==
    /\ lastOp.kind = "refused"
    /\ lastOp.name = "User not found or inactive"
    /\ sock[lastOp.sock].st = "refused"
    /\ \E s \in LiveSockets : Registered(s)

\* C2 (as claimed): a connection of a principal that already has a live
\* connection broadcasts no 'user:online'.
C2_OnlineOnlyOnFirstConnection ==
    lastOp.kind = "connection" =>
        (Cardinality(LiveOf(lastOp.inst, sock[lastOp.sock].userId)) > 1
            => Emitted("user:online") = {})

\* 'user:offline' for principal u was broadcast to its organization room by
\* the operation that ran last.
OfflineBroadcast(i, u) ==
    \E k \in Emitted("user:offline") :
        /\ lastEmits[k].data.userId = u
        /\ lastEmits[k].room = OrgRoom(users[u].organizationId)
        /\ lastOp.inst = i

\* C3: a step broadcasts 'user:offline' for a principal exactly when it takes
\* the principal's live connections from one to none.
C3_OfflineExactlyOnLastDisconnect ==
    [][\A i \in Instances : \A u \in DOMAIN users :
          OfflineBroadcast(i, u)' <=>
              (Cardinality(LiveOf(i, u)) = 1 /\ Cardinality(LiveOf(i, u)') = 0)]_vars

\* C3 witness: the last connection of a principal has just closed, after
\* another connection of the same principal had closed without a broadcast.
C3_Witness ==
    /\ lastOp.kind = "disconnect"
    /\ Emitted("user:offline") /= {}
    /\ \E s \in SocketIds :
          /\ s /= lastOp.sock
          /\ sock[s].st = "closed"
          /\ sock[s].userId = sock[lastOp.sock].userId

RoomsOfOrg(o) == {OrgRoom(o), AdminRoom(o), ManagerRoom(o)}

\* C4: an emission addressed to a room of organization o reaches only
\* connections whose principal belongs to o.
C4_TenantIsolation ==
    \A k \in DOMAIN lastEmits : \A o \in Orgs :
        lastEmits[k].room \in RoomsOfOrg(o) =>
            \A r \in lastEmits[k].to : sock[r].organizationId = o

\* C4 witness: an event for o2's room has been delivered there while a live
\* connection of o1 is subscribed to the channel named "org:o2".
C4_Witness ==
    /\ lastOp.kind = "emitter"
    /\ Len(lastEmits) = 1
    /\ lastEmits[1].room = OrgRoom("o2")
    /\ lastEmits[1].to /= {}
    /\ \E s \in LiveSockets :
          /\ sock[s].organizationId = "o1"
          /\ NotifyRoom("org:o2") \in sock[s].rooms

\* C5 (as claimed): an organization-room client event is delivered to every
\* member of the sender's organization room, the sender included.
C5_OrgRoomEventReachesWholeRoom ==
    (lastOp.kind = "client" /\ lastOp.name \in OrgRoomEvents) =>
        /\ Len(lastEmits) = 1
        /\ lastEmits[1].to =
              Members(sock, lastOp.inst, OrgRoom(sock[lastOp.sock].organizationId))

\* C5 (amended): it is delivered to every member of the sender's
\* organization room except the sending connection itself.
C5_OrgRoomEventReachesAllButSender ==
    (lastOp.kind = "client" /\ lastOp.name \in OrgRoomEvents) =>
        /\ Len(lastEmits) = 1
        /\ lastEmits[1].room = OrgRoom(sock[lastOp.sock].organizationId)
        /\ lastEmits[1].to =
              Members(sock, lastOp.inst, OrgRoom(sock[lastOp.sock].organizationId))
                  \ {lastOp.sock}

\* C5 witness: a filter update has reached another member of the room.
C5_Witness ==
    /\ lastOp.kind = "client"
    /\ lastOp.name = "inventory:filter:update"
    /\ Len(lastEmits) = 1
    /\ lastEmits[1].to /= {}

\* C6: a manager-room broadcast reaches every live manager of that
\* organization and no connection whose role is user or viewer.
C6_ManagerRoomContainment ==
    \A k \in DOMAIN lastEmits : \A o \in Orgs :
        lastEmits[k].room = ManagerRoom(o) =>
            /\ \A s \in LiveSockets :
                  (sock[s].inst = lastOp.inst /\ sock[s].organizationId = o
                      /\ sock[s].role = "manager") => s \in lastEmits[k].to
            /\ \A r \in lastEmits[k].to : sock[r].role \notin {"user", "viewer"}

\* C6 witness: a connection with role user sent 'user:location:update' and a
\* manager received the broadcast.
C6_Witness ==
    /\ lastOp.kind = "client"
    /\ lastOp.name = "user:location:update"
    /\ sock[lastOp.sock].role = "user"
    /\ Len(lastEmits) = 1
    /\ \E r \in lastEmits[1].to : sock[r].role = "manager"

ManagerRoles == {"manager", "org_admin", "system_admin"}

AdminRoles == {"org_admin", "system_admin"}

\* C7: every live connection is in its organization room and its personal
\* room, in the manager room of its organization exactly when its role is
\* manager, org_admin or system_admin, and in the admin room exactly when
\* its role is org_admin or system_admin.
C7_RoomMembership ==
    \A s \in LiveSockets :
        LET o == sock[s].organizationId
            u == sock[s].userId
        IN  /\ OrgRoom(o) \in sock[s].rooms
            /\ UserRoom(u) \in sock[s].rooms
            /\ (ManagerRoom(o) \in sock[s].rooms) <=> (sock[s].role \in ManagerRoles)
            /\ (AdminRoom(o) \in sock[s].rooms) <=> (sock[s].role \in AdminRoles)
            /\ (AdminRoom(o) \in sock[s].rooms) => (ManagerRoom(o) \in sock[s].rooms)

\* C7 witness: a system admin and a viewer are connected.
C7_Witness ==
    /\ \E s \in LiveSockets : sock[s].role = "system_admin"
    /\ \E s \in LiveSockets : sock[s].role = "viewer"

\* C8 (as claimed): after an emitter call, every connection in the target
\* room on every instance has the event, or its instance has it on the bus.
C8_EmitterReachesEveryInstance ==
    (lastOp.kind = "emitter" /\ Len(lastEmits) = 1) =>
        \A s \in LiveSockets :
            lastEmits[1].room \in sock[s].rooms =>
                \/ s \in lastEmits[1].to
                \/ \E k \in DOMAIN inbox[sock[s].inst] :
                      /\ inbox[sock[s].inst][k].data.event = lastEmits[1].event
                      /\ targetRoom(inbox[sock[s].inst][k].channel,
                                    inbox[sock[s].inst][k].data) = lastEmits[1].room

\* C9 (as claimed): the subscriber rebroadcasts a bus message with its event
\* name and payload to its target, and on the publishing instance no
\* connection that the local broadcast already served is served again.
C9_RelayRoundTripNoRefire ==
    lastOp.kind = "relay" =>
        /\ Len(lastEmits) = 1
        /\ lastEmits[1].event = lastOp.msg.data.event
        /\ json(lastEmits[1].data) = lastOp.msg.data.payload
        /\ lastEmits[1].room = targetRoom(lastOp.msg.channel, lastOp.msg.data)
        /\ (lastOp.inst = lastOp.msg.origin => lastEmits[1].to \cap lastOp.msg.dup = {})

\* C10: handling bus messages places nothing on the bus: the messages placed
\* there are as many as the publish calls.
C10_NoRelayLoop == busPlaced = publishCalls

\* C10 witness: a subscriber has rebroadcast the second published message to
\* a connection.
C10_Witness ==
    /\ lastOp.kind = "relay"
    /\ publishCalls >= 2
    /\ Len(lastEmits) = 1
    /\ lastEmits[1].to /= {}


(***************************************************************************)
(* Closing a socket.  socket.io dispatches 'disconnect' to the handler the *)
(* connection handler registered, once, and only for a socket that is      *)
(* connected; a socket closed while its middleware is still running is     *)
(* dropped without 'connection', and a refused socket has no handler.      *)
(***************************************************************************)
\* Why a socket closes: the client or the server asks, the transport drops,
\* or no pong arrived within pingTimeout after a ping sent every pingInterval.
CloseReasons == {"client namespace disconnect", "transport close", "ping timeout"}

InHandshake(sk, s) == sk[s].st \in {"await_session", "await_user", "authed"}

\* Variant: the disconnect handler also runs for a socket that is not connected.
oncloseAlwaysDispatches(sk, cu, s, reason) == onDisconnect(sk, cu, s)

\* Variant: a socket dropped by the keepalive is closed without its handler.
oncloseSilentOnPingTimeout(sk, cu, s, reason) ==
    IF Live(sk, s) /\ reason /= "ping timeout"
      THEN onDisconnect(sk, cu, s)
      ELSE [sock  |-> IF Live(sk, s) \/ InHandshake(sk, s)
                        THEN [sk EXCEPT ![s].st = "closed", ![s].rooms = {}]
                        ELSE sk,
            cu    |-> cu,
            emits |-> <<>>]

\* What a close of socket s does to the sockets, the registry and the rooms;
\* the handler takes no argument, so the reason plays no part.
onclose(sk, cu, s, reason) ==
    IF Live(sk, s)
      THEN onDisconnect(sk, cu, s)
      ELSE [sock  |-> IF InHandshake(sk, s)
                        THEN [sk EXCEPT ![s].st = "closed", ![s].rooms = {}]
                        ELSE sk,
            cu    |-> cu,
            emits |-> <<>>]

SocketClose(s, reason) ==
    /\ s \in SocketIds
    /\ LET i == sock[s].inst
           r == onclose(sock, connectedUsers[i], s, reason)
       IN /\ sock' = r.sock
          /\ connectedUsers' = [connectedUsers EXCEPT ![i] = r.cu]
          /\ lastEmits' = r.emits
          /\ lastOp' = Op(IF Live(sock, s) THEN "disconnect" ELSE "ignored", s, i, reason)
    /\ UNCHANGED <<now, suspended, service, errorLog, redis, inbound, items, http, cluster, users, sessions, inbox, busPlaced, publishCalls>>

\* Credentials for the closing scenarios: two principals in good standing
\* and one attempt without a token.
CloseTokens == {Jwt("ok", "u1", "s1"), Jwt("ok", "u2", "s2"), NoToken}

NextClose ==
    \/ \E s \in 1..MaxSockets, tok \in CloseTokens : HandshakeStart(s, "A", tok)
    \/ \E s \in 1..MaxSockets : HandshakeSession(s)
    \/ \E s \in 1..MaxSockets : HandshakeUser(s)
    \/ \E s \in 1..MaxSockets : Connection(s)
    \/ \E s \in 1..MaxSockets, reason \in CloseReasons : SocketClose(s, reason)

SpecClose == Init /\ [][NextClose]_vars

C18_RegistryMatchesLiveConnections ==
    \A i \in Instances :
        /\ \A u \in DOMAIN connectedUsers[i] :
              /\ connectedUsers[i][u] = LiveOf(i, u)
              /\ connectedUsers[i][u] /= {}
        /\ \A s \in LiveSockets :
              sock[s].inst = i =>
                  /\ sock[s].userId \in DOMAIN connectedUsers[i]
                  /\ s \in connectedUsers[i][sock[s].userId]

\* C18 witness: a principal holds two live connections under one key while
\* another connection has closed.
C18_Witness ==
    /\ \E u \in DOMAIN connectedUsers["A"] : Cardinality(connectedUsers["A"][u]) = 2
    /\ \E s \in SocketIds : sock[s].st = "closed" /\ sock[s].userId /= ""

\* C19: a connection closed for missed keepalives is out of the registry and
\* of every room, and 'user:offline' goes to its organization room exactly
\* when its principal has no live connection left.
C19_PingTimeoutRunsDisconnect ==
    [][\A s \in SocketIds :
          (lastOp'.name = "ping timeout" /\ lastOp'.sock = s /\ Live(sock, s)) =>
              LET i == sock[s].inst
                  u == sock[s].userId
              IN  /\ ~Live(sock', s)
                  /\ sock'[s].rooms = {}
                  /\ \A v \in DOMAIN connectedUsers'[i] : s \notin connectedUsers'[i][v]
                  /\ OfflineBroadcast(i, u)' <=> (LiveOf(i, u)' = {})]_vars

\* C19 witness: the keepalive closed a principal's last connection and the
\* offline broadcast reached another connection of the organization.
C19_Witness ==
    /\ lastOp.kind = "disconnect"
    /\ lastOp.name = "ping timeout"
    /\ Len(lastEmits) = 1
    /\ lastEmits[1].event = "user:offline"
    /\ lastEmits[1].to /= {}

(***************************************************************************)
(* The inventory mutation routes (routes/inventory.ts).  A request is cut  *)
(* at its awaits: the lookup, the write(s), then the emitter calls and the *)
(* response, which run without an await between them.                      *)
(***************************************************************************)
MaxItems == 2
MaxQuantity == 2

ItemIds == 1..MaxItems

Routes == {"POST /", "PATCH /:itemId", "POST /:itemId/quantity", "DELETE /:itemId"}

\* authorize(...allowedRoles) in front of the handler; none on the quantity route
allowedRoles(route) ==
    CASE route = "POST /"           -> {"manager", "org_admin", "system_admin"}
      [] route = "PATCH /:itemId"   -> {"manager", "org_admin", "system_admin"}
      [] route = "DELETE /:itemId"  -> {"org_admin", "system_admin"}
      [] OTHER                      -> {}

authorize(route, role) == allowedRoles(route) = {} \/ role \in allowedRoles(route)

\* The status the handler's lookup leads to; 0 when the handler goes on.
lookupStatus(route, its, org, itemId, body) ==
    IF route = "POST /"
      THEN IF \E id \in DOMAIN its :
                  its[id].organizationId = org /\ its[id].sku = body.sku
             THEN 409 ELSE 0
      ELSE IF itemId \in DOMAIN its /\ its[itemId].organizationId = org
             THEN 0 ELSE 404

\* The row the handler writes.
rowToWrite(route, org, item, body) ==
    CASE route = "POST /" -> Item(org, body.sku, body.quantity, body.minQuantity)
      [] route = "PATCH /:itemId" ->
             Item(item.organizationId,
                  IF body.sku = "" THEN item.sku ELSE body.sku,
                  IF body.quantity = -1 THEN item.quantity ELSE body.quantity,
                  IF body.minQuantity = -1 THEN item.minQuantity ELSE body.minQuantity)
      [] route = "POST /:itemId/quantity" -> [item EXCEPT !.quantity = body.quantity]
      [] OTHER -> item

\* Whether the handler also inserts an inventory movement.
insertsMovement(route, item, body) ==
    \/ route = "POST /"
    \/ route = "POST /:itemId/quantity" /\ body.quantity - item.quantity /= 0

successStatus(route) == IF route = "POST /" THEN 201 ELSE 200

RouteBegin(route, u, itemId, body) ==
    /\ http.pc \in {"idle", "done"}
    /\ u \in DOMAIN users
    /\ users[u].isActive
    /\ route = "POST /" => Cardinality(DOMAIN items) < MaxItems
    /\ LET org == users[u].organizationId
           rq  == [NoRequest EXCEPT !.route = route, !.userId = u,
                                    !.itemId = itemId, !.body = body]
           st  == IF ~authorize(route, users[u].role) THEN 403
                  ELSE IF ~body.valid THEN 400
                  ELSE lookupStatus(route, items, org, itemId, body)
           it  == IF route /= "POST /" /\ st = 0 THEN items[itemId] ELSE NoItem
       IN  http' = IF st /= 0
                     THEN [rq EXCEPT !.pc = "done", !.status = st]
                     ELSE [rq EXCEPT !.pc = "write", !.item = it,
                                     !.written = rowToWrite(route, org, it, body),
                                     !.movement = insertsMovement(route, it, body)]
    /\ lastOp' = Op("http", 0, "A", route)
    /\ lastEmits' = <<>>
    /\ UNCHANGED <<now, suspended, service, errorLog, redis, inbound, items, cluster, users, sessions, sock, connectedUsers, inbox,
                   busPlaced, publishCalls>>

\* How the database answers the handler's writes.
DbOutcomes(rq) == {"ok", "error"} \cup (IF rq.movement THEN {"movement error"} ELSE {})

\* Variant: the handler goes on to its emitter calls whatever the write did.
afterWriteAlwaysEmits(db) == "emit"

\* Where the handler goes after its writes: a rejected write throws to next(error).
afterWrite(db) == IF db = "ok" THEN "emit" ELSE "done"

\* The table after the handler's write of item row.
writeItem(its, route, itemId, row) ==
    IF route = "DELETE /:itemId"
      THEN [id \in DOMAIN its \ {itemId} |-> its[id]]
      ELSE [id \in DOMAIN its \cup {itemId} |-> IF id = itemId THEN row ELSE its[id]]

\* id: uuid('id').primaryKey().defaultRandom(): the database names the row
\* when it is inserted.
newId(its) ==
    CHOOSE id \in ItemIds : id \notin DOMAIN its /\ \A j \in ItemIds \ DOMAIN its : id <= j

RouteWrite(db) ==
    /\ http.pc = "write"
    /\ db \in DbOutcomes(http)
    /\ (http.route = "POST /" /\ db /= "error") => ItemIds \ DOMAIN items /= {}
    /\ LET id == IF http.route = "POST /" /\ db /= "error"
                   THEN newId(items) ELSE http.itemId
       IN /\ items' = IF db = "error"
                        THEN items
                        ELSE writeItem(items, http.route, id, http.written)
          /\ http' = [http EXCEPT !.pc = afterWrite(db),
                                  !.status = IF db = "ok" THEN 0 ELSE 500,
                                  !.itemId = id,
                                  !.replaced = IF db /= "error" /\ id \in DOMAIN items
                                                 THEN items[id].quantity ELSE -1]
    /\ lastOp' = Op("http", 0, "A", http.route)
    /\ lastEmits' = <<>>
    /\ UNCHANGED <<now, suspended, service, errorLog, redis, inbound, cluster, users, sessions, sock, connectedUsers, inbox,
                   busPlaced, publishCalls>>

\* emitQuantityChanged(io, organizationId, data)
emitQuantityChanged(sk, i, o, data) ==
    <<IoTo(sk, i, OrgRoom(o), "inventory:quantity:changed", data)>> \o
    (IF data.newQuantity <= 0
       THEN <<IoTo(sk, i, OrgRoom(o), "inventory:outofstock:alert", data.itemId)>>
       ELSE <<>>)

\* emitLowStockAlert(io, organizationId, items)
emitLowStockAlert(sk, i, o, itemId) ==
    <<IoTo(sk, i, OrgRoom(o), "inventory:lowstock:alert", itemId)>>

\* emitOutOfStockAlert(io, organizationId, itemId)
emitOutOfStockAlert(sk, i, o, itemId) ==
    <<IoTo(sk, i, OrgRoom(o), "inventory:outofstock:alert", itemId)>>

\* The emissions of a route's emitter calls, in order, when none of them throws.
routeEmits(sk, i, rq) ==
    LET o   == rq.written.organizationId
        id  == rq.itemId
        new == rq.written
        old == rq.item
    IN  CASE rq.route = "POST /" ->
               <<IoTo(sk, i, OrgRoom(o), "inventory:item:created", id),
                 IoTo(sk, i, OrgRoom(o), "inventory:movement:created", id)>> \o
               (IF new.quantity <= new.minQuantity
                  THEN emitLowStockAlert(sk, i, o, id) ELSE <<>>)
          [] rq.route = "PATCH /:itemId" ->
               <<IoTo(sk, i, OrgRoom(o), "inventory:item:updated", id)>> \o
               (IF new.quantity <= new.minQuantity
                  THEN emitLowStockAlert(sk, i, o, id) ELSE <<>>)
          [] rq.route = "POST /:itemId/quantity" ->
               emitQuantityChanged(sk, i, o,
                   [itemId |-> id, previousQuantity |-> old.quantity,
                    newQuantity |-> rq.body.quantity]) \o
               (IF rq.movement
                  THEN <<IoTo(sk, i, OrgRoom(o), "inventory:movement:created", id)>>
                  ELSE <<>>) \o
               (IF rq.body.quantity <= new.minQuantity /\ old.quantity > old.minQuantity
                  THEN emitLowStockAlert(sk, i, o, id)
                ELSE IF rq.body.quantity = 0 /\ old.quantity > 0
                  THEN emitOutOfStockAlert(sk, i, o, id)
                  ELSE <<>>)
          [] OTHER ->
               <<IoTo(sk, i, OrgRoom(o), "inventory:item:deleted", id)>>

\* try { ... } catch: throwAt = 0 when req.app.get('socketService').io throws,
\* k when the k-th emit throws; the emits before it have gone out.
emitBlock(calls, throwAt) ==
    IF throwAt = 0 THEN <<>>
    ELSE IF throwAt <= Len(calls) THEN SubSeq(calls, 1, throwAt - 1)
    ELSE calls

\* Variant: without the try/catch the error reaches next(error).
statusAfterEmitsUncaught(route, threw) == IF threw THEN 500 ELSE successStatus(route)

\* The status of the response that follows the emitter calls.
statusAfterEmits(route, threw) == successStatus(route)

\* Where the emitter calls of request rq may throw; the last value is "nowhere".
ThrowPoints(sk, rq) == 0..(Len(routeEmits(sk, "A", rq)) + 1)

RouteEmit(throwAt) ==
    /\ http.pc = "emit"
    /\ LET calls == routeEmits(sock, "A", http)
           threw == throwAt <= Len(calls)
       IN /\ lastEmits' = emitBlock(calls, throwAt)
          /\ http' = [http EXCEPT !.pc = "done", !.logged = threw,
                                  !.status = statusAfterEmits(http.route, threw)]
    /\ lastOp' = Op("http", 0, "A", http.route)
    /\ UNCHANGED <<now, suspended, service, errorLog, redis, inbound, items, cluster, users, sessions, sock, connectedUsers, inbox,
                   busPlaced, publishCalls>>

(***************************************************************************)
(* Specification of the inventory routes on one instance, with a manager   *)
(* and a plain user of o1 and the admin of o2 connected.                   *)
(***************************************************************************)
InventoryClients ==
    LET sk0 == << Authed("A", Jwt("ok", "u1", "s1")),
                  Authed("A", Jwt("ok", "u2", "s2")),
                  Authed("A", Jwt("ok", "u3", "s3")) >>
        r1 == onConnection(sk0, <<>>, 1)
        r2 == onConnection(r1.sock, r1.cu, 2)
        r3 == onConnection(r2.sock, r2.cu, 3)
    IN  [sock |-> r3.sock, cu |-> [i \in Instances |-> IF i = "A" THEN r3.cu ELSE <<>>]]

InitInventory ==
    /\ cluster = {"A"}
    /\ users = InitUsers
    /\ sessions = InitSessions
    /\ sock = InventoryClients.sock
    /\ connectedUsers = InventoryClients.cu
    /\ inbox = [i \in Instances |-> <<>>]
    /\ busPlaced = 0
    /\ publishCalls = 0
    /\ lastOp = Op("init", 0, "A", "init")
    /\ lastEmits = <<>>
    /\ items = InitItems
    /\ http = NoRequest
    /\ redis = NoRedis
    /\ errorLog = NoErrors
    /\ service = ServiceUp
    /\ suspended = <<>>
    /\ now = 1
    /\ inbound = <<>>

InvalidBody == Body(FALSE, "", -1, -1)

CreateBodies ==
    {Body(TRUE, sku, q, 1) : sku \in {"k1", "k2"}, q \in {0, MaxQuantity}}
        \cup {InvalidBody}

UpdateBodies ==
    {Body(TRUE, "", q, -1) : q \in {-1, 0}} \cup {InvalidBody}

QuantityBodies ==
    {Body(TRUE, "", q, -1) : q \in 0..MaxQuantity} \cup {InvalidBody}

NextInventory ==
    \/ \E u \in {"u1", "u2", "u3"}, b \in CreateBodies : RouteBegin("POST /", u, 0, b)
    \/ \E u \in {"u1", "u2", "u3"}, id \in ItemIds, b \in UpdateBodies :
           RouteBegin("PATCH /:itemId", u, id, b)
    \/ \E u \in {"u1", "u2", "u3"}, id \in ItemIds, b \in QuantityBodies :
           RouteBegin("POST /:itemId/quantity", u, id, b)
    \/ \E u \in {"u1", "u2", "u3"}, id \in ItemIds :
           RouteBegin("DELETE /:itemId", u, id, NoBody)
    \/ \E db \in {"ok", "error", "movement error"} : RouteWrite(db)
    \/ \E throwAt \in ThrowPoints(sock, http) : RouteEmit(throwAt)

SpecInventory == InitInventory /\ [][NextInventory]_vars


\* The request in service has just been answered after all its emitter calls
\* ran without throwing.
Answered(route) ==
    /\ lastOp.kind = "http"
    /\ http.route = route
    /\ http.pc = "done"
    /\ http.status = successStatus(route)
    /\ ~http.logged

EmittedTo(event, room) ==
    {k \in DOMAIN lastEmits : lastEmits[k].event = event /\ lastEmits[k].room = room}

\* C12 (as claimed): creating an item with quantity <= minQuantity in O1 emits
\* 'inventory:item:created' to O1's organization room and
\* 'inventory:lowstock:alert' to O1's manager room; no O1 connection outside
\* the manager room observes the alert and no connection of another
\* organization observes either event.
C12_LowStockOnCreateToManagers ==
    (Answered("POST /") /\ http.written.quantity <= http.written.minQuantity) =>
        LET o == http.written.organizationId IN
        /\ EmittedTo("inventory:item:created", OrgRoom(o)) /= {}
        /\ EmittedTo("inventory:lowstock:alert", ManagerRoom(o)) /= {}
        /\ \A k \in Emitted("inventory:lowstock:alert") : \A r \in lastEmits[k].to :
              ManagerRoom(o) \in sock[r].rooms
        /\ \A k \in DOMAIN lastEmits : \A r \in lastEmits[k].to :
              sock[r].organizationId = o

\* C13 (as claimed): a quantity update from p to q emits
\* 'inventory:quantity:changed' to the organization room, and
\* 'inventory:outofstock:alert' to it if and only if p > 0 and q = 0.
C13_OutOfStockOnCrossingOnly ==
    Answered("POST /:itemId/quantity") =>
        LET o == http.written.organizationId
            p == http.item.quantity
            q == http.body.quantity
        IN  /\ EmittedTo("inventory:quantity:changed", OrgRoom(o)) /= {}
            /\ (EmittedTo("inventory:outofstock:alert", OrgRoom(o)) /= {})
                   <=> (p > 0 /\ q = 0)

\* The write of the request in service is in the table.
Committed(its, rq) ==
    IF rq.route = "DELETE /:itemId"
      THEN rq.itemId \notin DOMAIN its
      ELSE rq.itemId \in DOMAIN its /\ its[rq.itemId] = rq.written

\* C14: when obtaining the socket service or an emitter call throws after the
\* write, the request still answers 201/200 and the write stays.
C14_EmitFailureIsContained ==
    (lastOp.kind = "http" /\ http.pc = "done" /\ http.logged) =>
        /\ http.status = successStatus(http.route)
        /\ Committed(items, http)

\* C14 witness: the second emitter call of a quantity update threw; the first
\* event went out and the request answered 200.
C14_Witness ==
    /\ lastOp.kind = "http"
    /\ http.route = "POST /:itemId/quantity"
    /\ http.pc = "done"
    /\ http.logged
    /\ Len(lastEmits) = 1
    /\ http.status = 200
    /\ items[http.itemId].quantity = http.body.quantity

RejectionStatus == {400, 403, 404, 409, 500}

\* C15: a route step emits only once its write is in the table, and a step
\* that answers with a rejection emits nothing.
C15_EmitAfterCommit ==
    [][lastOp'.kind = "http" =>
          /\ lastEmits' /= <<>> => (http.pc = "emit" /\ Committed(items, http))
          /\ http'.status \in RejectionStatus => lastEmits' = <<>>]_vars

\* C15 witness: an item was created and its events reached a connection
\* after the insert.
C15_Witness ==
    /\ Answered("POST /")
    /\ Len(lastEmits) >= 2
    /\ http.itemId \in DOMAIN items
    /\ \E r \in DOMAIN sock : r \in lastEmits[1].to


(***************************************************************************)
(* The HTTP authenticate middleware (middleware/auth.ts) beside the        *)
(* handshake middleware, and the routes that change the sessions table.    *)
(***************************************************************************)
MaxRefresh == 1

NoPrincipal == [userId |-> "", organizationId |-> "", role |-> ""]

Principal(us, u) ==
    [userId |-> u, organizationId |-> us[u].organizationId, role |-> us[u].role]

\* !( !session || session.token !== token || session.expiresAt < new Date() )
sessionValid(sess, tok) ==
    /\ tok.sessionId \in DOMAIN sess
    /\ sess[tok.sessionId].token = tok
    /\ ~sess[tok.sessionId].expired

\* authenticate(req, res, next): the error of its 401 response ("" when it
\* calls next()) and the principal it attaches to the request.
authenticate(sess, us, tok) ==
    IF ~tokenPresent(tok)          THEN [error |-> "Unauthorized", user |-> NoPrincipal]
    ELSE IF ~jwtVerify(tok)        THEN [error |-> "Invalid token", user |-> NoPrincipal]
    ELSE IF ~sessionValid(sess, tok)
                                   THEN [error |-> "Session expired", user |-> NoPrincipal]
    ELSE IF ~userAccepted(us, tok) THEN [error |-> "User not found or inactive",
                                         user |-> NoPrincipal]
    ELSE [error |-> "", user |-> Principal(us, tok.userId)]

\* The io.use middleware run against one state of the store: the message of
\* the Error it passes to next ("" when it calls next()) and the principal it
\* attaches to the socket.
handshake(sess, us, tok) ==
    IF ~tokenPresent(tok)            THEN [error |-> "Authentication required",
                                           user |-> NoPrincipal]
    ELSE IF ~jwtVerify(tok)          THEN [error |-> "Invalid token", user |-> NoPrincipal]
    ELSE IF ~sessionAccepted(sess, tok)
                                     THEN [error |-> "Session expired", user |-> NoPrincipal]
    ELSE IF ~userAccepted(us, tok)   THEN [error |-> "User not found or inactive",
                                           user |-> NoPrincipal]
    ELSE [error |-> "", user |-> Principal(us, tok.userId)]

\* Every credential a client may present, the tokens refresh has signed for
\* sessions s1 and s2 included.
AuthTokens ==
    Tokens \cup {JwtAt("ok", InitSessions[s].userId, s, k) :
                    s \in {"s1", "s2"}, k \in 1..(MaxRefresh + 1)}

\* The credentials a client can hold now: a token with the server's signature
\* and iat > 0 exists only once refresh has signed it.
Presentable ==
    {tok \in AuthTokens :
        tok.iat > 0 => /\ tok.sessionId \in DOMAIN sessions
                       /\ tok.iat <= sessions[tok.sessionId].token.iat}

\* An HTTP request carrying `Authorization: Bearer <tok>` passes authenticate.
Authenticate(tok) ==
    /\ tok \in Presentable
    /\ LET r == authenticate(sessions, users, tok) IN
       http' = [NoRequest EXCEPT !.route = "authenticate", !.pc = "done", !.token = tok,
                                 !.status = IF r.error = "" THEN 0 ELSE 401,
                                 !.error = r.error, !.userId = r.user.userId]
    /\ lastOp' = Op("authenticate", 0, "A", "authenticate")
    /\ lastEmits' = <<>>
    /\ UNCHANGED <<now, suspended, service, errorLog, redis, inbound, items, cluster, users, sessions, sock, connectedUsers, inbox,
                   busPlaced, publishCalls>>

\* A client opens a socket presenting tok and the middleware runs to its end
\* against the store as it is.
Handshake(tok) ==
    /\ tok \in Presentable
    /\ LET r == handshake(sessions, users, tok) IN
       /\ sock' = IF r.error /= ""
                    THEN <<[NewSocket("A", NoToken) EXCEPT !.st = "refused"]>>
                    ELSE <<[NewSocket("A", tok) EXCEPT !.st = "authed",
                                                       !.userId = r.user.userId,
                                                       !.organizationId = r.user.organizationId,
                                                       !.role = r.user.role]>>
       /\ lastOp' = Op(IF r.error /= "" THEN "refused" ELSE "handshake", 1, "A",
                       IF r.error /= "" THEN r.error ELSE "next")
    /\ http' = [NoRequest EXCEPT !.token = tok]
    /\ lastEmits' = <<>>
    /\ UNCHANGED <<now, suspended, service, errorLog, redis, inbound, items, cluster, users, sessions, connectedUsers, inbox,
                   busPlaced, publishCalls>>

\* generateTokens(userId, sessionId) called in second t.
generateTokens(u, s, t) ==
    [accessToken |-> JwtAt("ok", u, s, t), refreshToken |-> JwtAt("refresh", u, s, t)]

\* jwt.verify(refreshToken, JWT_REFRESH_SECRET) does not throw
jwtVerifyRefresh(r) == r.kind = "jwt" /\ r.sig = "refresh"

\* !( !session || session.refreshToken !== refreshToken
\*    || session.refreshExpiresAt < new Date() )
refreshAccepted(sess, r) ==
    /\ r.sessionId \in DOMAIN sess
    /\ sess[r.sessionId].refreshToken = r
    /\ ~sess[r.sessionId].refreshExpired

\* The handler of POST /auth/refresh run in second t with body.refreshToken r:
\* the status and error it answers and the sessions table it leaves. A throw
\* of jwt.verify is no AppError and is answered by the error handler's
\* default, 500.
refresh(sess, r, t) ==
    IF ~tokenPresent(r)
      THEN [status |-> 401, error |-> "Refresh token required", sessions |-> sess]
    ELSE IF ~jwtVerifyRefresh(r)
      THEN [status |-> 500, error |-> "Internal server error", sessions |-> sess]
    ELSE IF ~refreshAccepted(sess, r)
      THEN [status |-> 401, error |-> "Invalid refresh token", sessions |-> sess]
    ELSE LET g == generateTokens(r.userId, r.sessionId, t) IN
         [status |-> 200, error |-> "",
          sessions |-> [sess EXCEPT ![r.sessionId].token = g.accessToken,
                                    ![r.sessionId].refreshToken = g.refreshToken,
                                    ![r.sessionId].expired = FALSE,
                                    ![r.sessionId].refreshExpired = FALSE]]

\* Every refresh token a client may put in the body, the ones refresh signs
\* for sessions s1 and s2 included; an access token is one of them.
RefreshTokens ==
    {NoToken, Jwt("ok", "u1", "s1"), Jwt("refresh", "u1", "s0")} \cup
    {JwtAt("refresh", InitSessions[s].userId, s, k) :
        s \in {"s1", "s2"}, k \in 0..(MaxRefresh + 1)}

\* POST /auth/refresh with r in the body.
Refresh(r) ==
    /\ r \in RefreshTokens
    /\ r.iat > 0 => /\ r.sessionId \in DOMAIN sessions
                    /\ r.iat <= sessions[r.sessionId].refreshToken.iat
    /\ LET a == refresh(sessions, r, now) IN
       /\ sessions' = a.sessions
       /\ http' = [NoRequest EXCEPT !.route = "POST /auth/refresh", !.pc = "done",
                                    !.token = r, !.status = a.status, !.error = a.error]
    /\ lastOp' = Op("http", 0, "A", "POST /auth/refresh")
    /\ lastEmits' = <<>>
    /\ UNCHANGED <<now, suspended, service, errorLog, redis, inbound, items, cluster, users, sock, connectedUsers, inbox,
                   busPlaced, publishCalls>>

\* The clock reaches the next second.
Tick ==
    /\ now <= MaxRefresh
    /\ now' = now + 1
    /\ http' = NoRequest
    /\ lastOp' = Op("clock", 0, "A", "second")
    /\ lastEmits' = <<>>
    /\ UNCHANGED <<suspended, service, errorLog, redis, inbound, items, cluster, users, sessions, sock, connectedUsers,
                   inbox, busPlaced, publishCalls>>

\* routes/index.ts: the mounts whose router runs behind authenticate; /auth
\* is mounted without it.
ProtectedMounts == {"/users", "/organization", "/inventory"}

\* req.session.id as a handler mounted under `mount` reads it ("" when
\* req.session is undefined): only authenticate assigns req.session.
reqSession(mount, sess, us, tok) ==
    IF mount \in ProtectedMounts /\ authenticate(sess, us, tok).error = ""
      THEN tok.sessionId
      ELSE ""

\* POST /auth/logout: if (req.session) the session row is deleted; success
\* is answered either way.
Logout(tok) ==
    /\ tok \in Presentable
    /\ LET id == reqSession("/auth", sessions, users, tok) IN
       sessions' = IF id /= ""
                     THEN [s \in DOMAIN sessions \ {id} |-> sessions[s]]
                     ELSE sessions
    /\ http' = [NoRequest EXCEPT !.route = "POST /auth/logout", !.pc = "done",
                                 !.token = tok, !.status = 200]
    /\ lastOp' = Op("http", 0, "A", "POST /auth/logout")
    /\ lastEmits' = <<>>
    /\ UNCHANGED <<now, suspended, service, errorLog, redis, inbound, items, cluster, users, sock, connectedUsers, inbox,
                   busPlaced, publishCalls>>

\* Time passes session s's expiresAt.
SessionExpires(s) ==
    /\ s \in DOMAIN sessions
    /\ ~sessions[s].expired
    /\ sessions' = [sessions EXCEPT ![s].expired = TRUE]
    /\ http' = NoRequest
    /\ lastOp' = Op("clock", 0, "A", "expiresAt")
    /\ lastEmits' = <<>>
    /\ UNCHANGED <<now, suspended, service, errorLog, redis, inbound, items, cluster, users, sock, connectedUsers, inbox,
                   busPlaced, publishCalls>>

\* Time passes session s's refreshExpiresAt, the later of its two dates.
RefreshExpires(s) ==
    /\ s \in DOMAIN sessions
    /\ sessions[s].expired
    /\ ~sessions[s].refreshExpired
    /\ sessions' = [sessions EXCEPT ![s].refreshExpired = TRUE]
    /\ http' = NoRequest
    /\ lastOp' = Op("clock", 0, "A", "refreshExpiresAt")
    /\ lastEmits' = <<>>
    /\ UNCHANGED <<now, suspended, service, errorLog, redis, inbound, items, cluster, users, sock, connectedUsers, inbox,
                   busPlaced, publishCalls>>

NextAuth ==
    \/ \E tok \in AuthTokens : Authenticate(tok)
    \/ \E tok \in AuthTokens : Handshake(tok)
    \/ \E r \in RefreshTokens : Refresh(r)
    \/ \E tok \in AuthTokens : Logout(tok)
    \/ \E s \in {"s1", "s2"} : SessionExpires(s)
    \/ \E s \in {"s1", "s2"} : RefreshExpires(s)
    \/ Tick

SpecAuth == Init /\ [][NextAuth]_vars

\* C16 (as claimed): the handshake accepts a credential exactly when
\* authenticate accepts it, with the same principal; a signed token whose
\* session exists and is unexpired but stores another token is rejected.
C16_HandshakeSameAsAuthenticate ==
    lastOp.kind \in {"refused", "handshake"} =>
        LET a == authenticate(sessions, users, http.token) IN
        /\ (sock[1].st = "authed") <=> (a.error = "")
        /\ a.error = "" =>
              /\ sock[1].userId = a.user.userId
              /\ sock[1].organizationId = a.user.organizationId
              /\ sock[1].role = a.user.role

\* C17 (as claimed): whatever check fails, the error returned is the same:
\* the error of a refused handshake or of a 401 response is the one every
\* other failing credential gets, on the socket path and on the HTTP path.
C17_FailuresIndistinguishable ==
    /\ lastOp.kind = "refused" =>
          \A tok \in Presentable :
              LET h == handshake(sessions, users, tok)
                  a == authenticate(sessions, users, tok)
              IN  /\ h.error /= "" => h.error = lastOp.name
                  /\ a.error /= "" => a.error = lastOp.name
    /\ (lastOp.kind = "authenticate" /\ http.status = 401) =>
          \A tok \in Presentable :
              LET a == authenticate(sessions, users, tok)
              IN  a.error /= "" => a.error = http.error


\* C29 (as claimed): once POST /auth/logout has answered a request that
\* carried an access token, that token is rejected by authenticate and by
\* the handshake middleware.
C29_LogoutEndsSession ==
    (lastOp.name = "POST /auth/logout" /\ http.status = 200) =>
        /\ authenticate(sessions, users, http.token).error /= ""
        /\ handshake(sessions, users, http.token).error /= ""


(***************************************************************************)
(* Changes to a user's row while that user is connected: PATCH /:userId of *)
(* routes/users.ts, and the emitters that announce a change.               *)
(***************************************************************************)
\* PATCH /users/:userId by an admin: role and isActive of a user of the
\* admin's organization are overwritten; the route emits nothing.
UpdateUser(by, u, role, isActive) ==
    /\ by \in DOMAIN users
    /\ users[by].isActive
    /\ LET st == IF users[by].role \notin {"org_admin", "system_admin"} THEN 403
                 ELSE IF u \notin DOMAIN users
                         \/ users[u].organizationId /= users[by].organizationId THEN 404
                 ELSE 200
       IN /\ users' = IF st = 200
                        THEN [users EXCEPT ![u].role = role, ![u].isActive = isActive]
                        ELSE users
          /\ http' = [NoRequest EXCEPT !.route = "PATCH /users/:userId", !.pc = "done",
                                       !.userId = by, !.status = st]
    /\ lastOp' = Op("http", 0, "A", "PATCH /users/:userId")
    /\ lastEmits' = <<>>
    /\ UNCHANGED <<now, suspended, service, errorLog, redis, inbound, items, cluster, sessions, sock, connectedUsers, inbox,
                   busPlaced, publishCalls>>

\* emitRoleChanged(io, organizationId, userId, oldRole, newRole)
emitRoleChanged(sk, i, organizationId, userId, oldRole, newRole) ==
    <<IoTo(sk, i, OrgRoom(organizationId), "user:role:changed",
           [userId |-> userId, oldRole |-> oldRole, newRole |-> newRole]),
      IoTo(sk, i, UserRoom(userId), "user:role:updated", [newRole |-> newRole])>>

\* emitUserDeactivated(io, organizationId, userId)
emitUserDeactivated(sk, i, organizationId, userId) ==
    <<IoTo(sk, i, OrgRoom(organizationId), "user:deactivated", [userId |-> userId])>>

RoleChangedCall(i, u, oldRole, newRole) ==
    /\ i \in cluster
    /\ u \in DOMAIN users
    /\ lastEmits' = emitRoleChanged(sock, i, users[u].organizationId, u, oldRole, newRole)
    /\ lastOp' = Op("emitter", 0, i, "emitRoleChanged")
    /\ UNCHANGED <<now, suspended, service, errorLog, redis, inbound, items, http, cluster, users, sessions, sock, connectedUsers, inbox,
                   busPlaced, publishCalls>>

UserDeactivatedCall(i, u) ==
    /\ i \in cluster
    /\ u \in DOMAIN users
    /\ lastEmits' = emitUserDeactivated(sock, i, users[u].organizationId, u)
    /\ lastOp' = Op("emitter", 0, i, "emitUserDeactivated")
    /\ UNCHANGED <<now, suspended, service, errorLog, redis, inbound, items, http, cluster, users, sessions, sock, connectedUsers, inbox,
                   busPlaced, publishCalls>>

(***************************************************************************)
(* Specification of one instance whose users' rows change under live       *)
(* connections: u1 is a system admin of o1, u2 starts as a viewer of o1.   *)
(***************************************************************************)
InitFrame ==
    /\ cluster = {"A"}
    /\ users = AltUsers
    /\ InitGateway

NextFrame ==
    \/ \E s \in 1..MaxRoomSockets, tok \in {Jwt("ok", "u1", "s1"), Jwt("ok", "u2", "s2")} :
           HandshakeStart(s, "A", tok)
    \/ \E s \in 1..MaxRoomSockets : HandshakeSession(s)
    \/ \E s \in 1..MaxRoomSockets : HandshakeUser(s)
    \/ \E s \in 1..MaxRoomSockets : Connection(s)
    \/ \E s \in 1..MaxRoomSockets : Disconnect(s)
    \/ \E s \in 1..MaxRoomSockets,
          name \in {"inventory:filter:update", "user:location:update", "user:activity"} :
           ClientEvent(s, name, PlainArg)
    \/ \E s \in 1..MaxRoomSockets, l \in ChannelLists : NotificationsSubscribe(s, l)
    \/ \E by \in {"u1", "u2"}, role \in {"viewer", "manager"}, isActive \in BOOLEAN :
           UpdateUser(by, "u2", role, isActive)
    \/ RoleChangedCall("A", "u2", "viewer", "manager")
    \/ UserDeactivatedCall("A", "u2")

SpecFrame == InitFrame /\ [][NextFrame]_vars

\* The organization, personal and role rooms a socket is in.
PrincipalRooms(sk, s) ==
    sk[s].rooms \cap
        (UNION {{OrgRoom(o), AdminRoom(o), ManagerRoom(o)} : o \in Orgs}
            \cup {UserRoom(u) : u \in DOMAIN users})

\* C20: from the end of the handshake until the connection closes, no step
\* changes its userId, organizationId or role, and while it is connected no
\* step changes its membership of organization, personal and role rooms.
C20_PrincipalAndRoomsFixed ==
    [][\A s \in SocketIds :
          /\ (sock[s].st \in {"authed", "connected"}
                 /\ sock'[s].st \in {"authed", "connected"}) =>
                /\ sock'[s].userId = sock[s].userId
                /\ sock'[s].organizationId = sock[s].organizationId
                /\ sock'[s].role = sock[s].role
          /\ (Live(sock, s) /\ Live(sock', s)) =>
                PrincipalRooms(sock', s) = PrincipalRooms(sock, s)]_vars

\* C20 witness: emitRoleChanged has reached a connection made before its
\* user's role changed, which keeps the old role and rooms, while a
\* connection the same user made after the change is in the manager room.
C20_Witness ==
    /\ lastOp.name = "emitRoleChanged"
    /\ \E s \in LiveSockets, r \in LiveSockets :
          /\ sock[s].userId = sock[r].userId
          /\ sock[s].role = "viewer"
          /\ sock[r].role = "manager"
          /\ users[sock[s].userId].role = "manager"
          /\ ManagerRoom(sock[s].organizationId) \notin sock[s].rooms
          /\ ManagerRoom(sock[r].organizationId) \in sock[r].rooms
          /\ s \in lastEmits[2].to

(***************************************************************************)
(* Relay routing.                                                          *)
(***************************************************************************)
\* The live connections of instance i whose principal a bus message names.
RelayAudience(i, m) ==
    {s \in LiveSockets :
        /\ sock[s].inst = i
        /\ CASE m.channel = "inventory:updates"
                  -> sock[s].organizationId = m.data.organizationId
             [] m.channel = "user:updates"
                  -> sock[s].userId = m.data.userId
             [] m.channel = "notifications" /\ m.data.type = "organization"
                  -> sock[s].organizationId = m.data.targetId
             [] m.channel = "notifications" /\ m.data.type = "user"
                  -> sock[s].userId = m.data.targetId
             [] OTHER -> m.channel = "notifications" /\ m.data.type = "global"}

\* C22: a subscriber that has handled a bus message has made exactly one
\* broadcast, with the message's event name and payload, delivered to the
\* live connections of its instance that the message's channel and routing
\* fields name (an organization, a user, or everybody) and to no other.
C22_RelayRouting ==
    lastOp.kind = "relay" =>
        /\ Len(lastEmits) = 1
        /\ lastEmits[1].event = lastOp.msg.data.event
        /\ lastEmits[1].data = lastOp.msg.data.payload
        /\ lastEmits[1].to = RelayAudience(lastOp.inst, lastOp.msg)

\* C22 witness: instance A has relayed an organization notification to the
\* connection of that organization and not to the connection of the other
\* organization on the same instance.
C22_Witness ==
    /\ lastOp.kind = "relay"
    /\ lastOp.inst = "A"
    /\ lastOp.msg.channel = "notifications"
    /\ lastOp.msg.data.type = "organization"
    /\ Len(lastEmits) = 1
    /\ lastEmits[1].to /= {}
    /\ \E s \in LiveSockets : sock[s].inst = "A" /\ s \notin lastEmits[1].to

(***************************************************************************)
(* Topic subscriptions.                                                    *)
(***************************************************************************)
\* C26: a 'notifications:subscribe' step adds to the sender's rooms exactly
\* the notify: rooms of one requested list and changes nothing else of any
\* socket nor the registry; and at all times the organization, personal and
\* role rooms a live connection is in are those of its own principal.
C26_SubscribeJoinsNotifyOnly ==
    /\ [](\A s \in LiveSockets :
             PrincipalRooms(sock, s) \subseteq
                 {OrgRoom(sock[s].organizationId), UserRoom(sock[s].userId)}
                     \cup (IF sock[s].role \in AdminRoles
                             THEN {AdminRoom(sock[s].organizationId)} ELSE {})
                     \cup (IF sock[s].role \in ManagerRoles
                             THEN {ManagerRoom(sock[s].organizationId)} ELSE {}))
    /\ [][lastOp'.name = "notifications:subscribe" =>
             LET s == lastOp'.sock IN
             /\ \E l \in ChannelLists :
                   sock'[s].rooms =
                       sock[s].rooms \cup {NotifyRoom(l[k]) : k \in DOMAIN l}
             /\ sock' = [sock EXCEPT ![s].rooms = sock'[s].rooms]
             /\ PrincipalRooms(sock', s) = PrincipalRooms(sock, s)
             /\ connectedUsers' = connectedUsers]_vars

\* C26 witness: a connection of o1 has subscribed to the channels named
\* "org:o2" and "org:o2:managers" while another connection is live, and is
\* in the two notify: rooms and in no room of o2.
C26_Witness ==
    /\ lastOp.name = "notifications:subscribe"
    /\ sock[lastOp.sock].organizationId = "o1"
    /\ {NotifyRoom("org:o2"), NotifyRoom("org:o2:managers")} \subseteq sock[lastOp.sock].rooms
    /\ sock[lastOp.sock].rooms \cap RoomsOfOrg("o2") = {}
    /\ \E r \in LiveSockets : r /= lastOp.sock

(***************************************************************************)
(* The Redis server executes commands, and keys expire.                    *)
(***************************************************************************)
Min(a, b) == IF a <= b THEN a ELSE b

\* The key holds a value.
keyExists(rd, key) ==
    \/ key \in DOMAIN rd.lists /\ rd.lists[key] /= <<>>
    \/ key \in DOMAIN rd.sets /\ rd.sets[key] /= {}

\* Redis executes the oldest command of instance i's connection; the reply
\* resumes a handler awaiting it, if the process still runs.
redisExec(rd, i, running) ==
    LET c    == Head(rd.cmds[i])
        rest == [rd EXCEPT !.cmds[i] = Tail(@)]
    IN  CASE c.op = "lpush"
               -> [rest EXCEPT !.lists[c.key] =
                                   <<[n |-> rd.pushed[c.key] + 1,
                                      userId |-> c.arg.userId, arg |-> c.arg.arg]>> \o @,
                               !.pushed[c.key] = @ + 1]
          [] c.op = "ltrim"
               -> [rest EXCEPT !.lists[c.key] = SubSeq(@, 1, Min(Len(@), c.stop + 1))]
          [] c.op = "expire"
               -> [rest EXCEPT !.ttl[c.key] = keyExists(rd, c.key)]
          [] c.op = "sadd"
               -> [rest EXCEPT !.sets[c.key] = @ \cup {c.arg.arg},
                               !.cmds[i] = IF running /\ c.then = "expire"
                                             THEN @ \o <<Cmd("expire", c.key, NoArg, 0, "")>>
                                             ELSE @]
          [] OTHER -> rest

RedisExec(i) ==
    /\ i \in DOMAIN redis.cmds
    /\ redis.cmds[i] /= <<>>
    /\ redis' = redisExec(redis, i, i \in cluster)
    /\ lastOp' = Op("redis", 0, i, Head(redis.cmds[i]).op)
    /\ lastEmits' = <<>>
    /\ UNCHANGED <<now, suspended, service, errorLog, inbound, items, http, cluster, users, sessions, sock, connectedUsers,
                   inbox, busPlaced, publishCalls>>

\* The time to live of a key runs out: Redis deletes the key.  The times to
\* live set by the handlers are a day and more, the commands of a handler
\* are written back to back: no command is in flight when a key expires.
KeyExpires(key) ==
    /\ key \in DOMAIN redis.ttl
    /\ redis.ttl[key]
    /\ \A i \in DOMAIN redis.cmds : redis.cmds[i] = <<>>
    /\ redis' = [redis EXCEPT !.ttl[key] = FALSE,
                              !.lists = [k \in DOMAIN @ |-> IF k = key THEN <<>> ELSE @[k]],
                              !.sets = [k \in DOMAIN @ |-> IF k = key THEN {} ELSE @[k]]]
    /\ lastOp' = Op("redis", 0, "A", "expired")
    /\ lastEmits' = <<>>
    /\ UNCHANGED <<now, suspended, service, errorLog, inbound, items, http, cluster, users, sessions, sock, connectedUsers,
                   inbox, busPlaced, publishCalls>>

\* The keys of the handlers, all absent, and the connections followed.
RedisOf(insts) ==
    [NoRedis EXCEPT !.cmds = [i \in insts |-> <<>>],
                    !.lists = [k \in {ActivityKey(o) : o \in Orgs} |-> <<>>],
                    !.pushed = [k \in {ActivityKey(o) : o \in Orgs} |-> 0],
                    !.sets = [k \in {ReadKey(u) : u \in DOMAIN InitUsers} |-> {}],
                    !.ttl = [k \in {ActivityKey(o) : o \in Orgs}
                                    \cup {ReadKey(u) : u \in DOMAIN InitUsers} |-> FALSE]]

(***************************************************************************)
(* Pushes to one user.                                                     *)
(***************************************************************************)
\* sendNotificationToUser(io, userId, notification)
sendNotificationToUser(sk, i, userId, notification) ==
    <<IoTo(sk, i, UserRoom(userId), "notification:new", notification)>>

\* What lastOp keeps of a push: the user it was asked to reach.
PushTo(u) == [NoMsg EXCEPT !.data.userId = u]

BroadcastToUserCall(i, u, event, payload) ==
    /\ i \in cluster
    /\ lastEmits' = <<broadcastToUser(sock, i, u, event, payload)>>
    /\ lastOp' = OpMsg("api", 0, i, "broadcastToUser", PushTo(u))
    /\ UNCHANGED <<now, suspended, service, errorLog, redis, inbound, items, http, cluster, users, sessions, sock,
                   connectedUsers, inbox, busPlaced, publishCalls>>

SendNotificationToUserCall(i, u) ==
    /\ i \in cluster
    /\ lastEmits' = sendNotificationToUser(sock, i, u, "p")
    /\ lastOp' = OpMsg("emitter", 0, i, "sendNotificationToUser", PushTo(u))
    /\ UNCHANGED <<now, suspended, service, errorLog, redis, inbound, items, http, cluster, users, sessions, sock,
                   connectedUsers, inbox, busPlaced, publishCalls>>

(***************************************************************************)
(* Specification of one gateway instance with three clients connected:     *)
(* u1 (manager of o1) twice and u2 (user of o1) once.  The clients send    *)
(* events with well-formed, forged and malformed arguments; local code     *)
(* pushes to single users.                                                 *)
(***************************************************************************)
MaxPending == 2

InboundClients ==
    LET sk0 == << Authed("A", Jwt("ok", "u1", "s1")),
                  Authed("A", Jwt("ok", "u1", "s1")),
                  Authed("A", Jwt("ok", "u2", "s2")) >>
        r1 == onConnection(sk0, <<>>, 1)
        r2 == onConnection(r1.sock, r1.cu, 2)
        r3 == onConnection(r2.sock, r2.cu, 3)
    IN  [sock |-> r3.sock, cu |-> [i \in Instances |-> IF i = "A" THEN r3.cu ELSE <<>>]]

InitInbound ==
    /\ cluster = {"A"}
    /\ users = InitUsers
    /\ sessions = InitSessions
    /\ sock = InboundClients.sock
    /\ connectedUsers = InboundClients.cu
    /\ inbox = [i \in Instances |-> <<>>]
    /\ busPlaced = 0
    /\ publishCalls = 0
    /\ lastOp = Op("init", 0, "A", "init")
    /\ lastEmits = <<>>
    /\ items = InitItems
    /\ http = NoRequest
    /\ redis = RedisOf({"A"})
    /\ errorLog = NoErrors
    /\ service = ServiceUp
    /\ suspended = <<>>
    /\ now = 1
    /\ inbound = <<>>

\* An object argument that carries a userId property of its own.
ForgedArg == [v |-> "x", userId |-> "u1", shape |-> "object"]

\* No argument at all.
MissingArg == [v |-> "undefined", userId |-> "", shape |-> "undefined"]

\* A string where a list is expected.
StringArg == [v |-> "c1", userId |-> "", shape |-> "string"]

InboundEvents ==
    { "inventory:item:editing", "user:presence:update", "user:location:update",
      "notification:action", "notification:read", "notifications:readall",
      "notifications:subscribe" }

\* The arguments the clients send with an event.
InboundArgs(name) ==
    CASE name \in {"user:presence:update", "user:location:update", "notification:action"}
           -> {PlainArg, ForgedArg, MissingArg}
      [] name = "notifications:subscribe" -> {StringArg, MissingArg}
      [] OTHER -> {PlainArg}

\* The client's packet arrives while at most MaxPending commands wait on the
\* instance's Redis connection.
InboundEvent(s, name, arg) ==
    /\ arg \in InboundArgs(name)
    /\ Len(redis.cmds[sock[s].inst]) < MaxPending
    /\ ClientEvent(s, name, arg)

NextInbound ==
    \/ \E s \in 1..Len(InboundClients.sock) : Disconnect(s)
    \/ \E s \in 1..Len(InboundClients.sock), name \in InboundEvents,
          arg \in {PlainArg, ForgedArg, MissingArg, StringArg} : InboundEvent(s, name, arg)
    \/ RedisExec("A")
    \/ \E u \in {"u1", "u2"} : KeyExpires(ReadKey(u))
    \/ \E u \in {"u1", "u2"} : PasswordChangedCall("A", u)
    \/ \E u \in {"u1", "u2"} : BroadcastToUserCall("A", u, "evt", "p")
    \/ \E u \in {"u1", "u2"} : SendNotificationToUserCall("A", u)

SpecInbound == InitInbound /\ [][NextInbound]_vars

UserPushes == {"broadcastToUser", "emitPasswordChanged", "sendNotificationToUser"}

\* C21: a push to one user makes exactly one emission, addressed to the
\* personal room of the user it was asked to reach, and every emission to a
\* personal room is handed to each live connection of that user on the
\* instance and to no other connection.
C21_UserPushReachesOwnConnections ==
    /\ lastOp.name \in UserPushes =>
          /\ Len(lastEmits) = 1
          /\ \E u \in DOMAIN users :
                /\ lastEmits[1].room = UserRoom(u)
                /\ lastOp.name /= "emitPasswordChanged" => lastOp.msg.data.userId = u
    /\ \A k \in DOMAIN lastEmits : \A u \in DOMAIN users :
          lastEmits[k].room = UserRoom(u) => lastEmits[k].to = LiveOf(lastOp.inst, u)

\* C21 witness: broadcastToUser has reached both connections of u1 and not
\* the live connection of u2.
C21_Witness ==
    /\ lastOp.name = "broadcastToUser"
    /\ Len(lastEmits) = 1
    /\ Cardinality(lastEmits[1].to) = 2
    /\ \A s \in lastEmits[1].to : sock[s].userId = "u1"
    /\ \E s \in LiveSockets : sock[s].userId = "u2" /\ s \notin lastEmits[1].to

\* C24 (as claimed): an inbound event whose argument is missing, or is a
\* string where a list is expected, produces no emission, and leaves the
\* sender connected and the instance running.
C24_MalformedIsDropped ==
    (lastOp.kind \in {"client", "thrown", "exit"}
        /\ lastOp.msg.data.payload \in {"undefined", "string"}) =>
        /\ lastEmits = <<>>
        /\ Live(sock, lastOp.sock)
        /\ lastOp.inst \in cluster

\* C27 (as claimed): a 'notification:read' step and a 'notifications:readall'
\* step each hand an acknowledgment to the sender and to nobody else, and
\* each writes to the read-state store of the sender.
C27_ReadMessagesAckAndMark ==
    [][(lastOp'.kind = "client"
          /\ lastOp'.name \in {"notification:read", "notifications:readall"}) =>
             /\ Len(lastEmits') = 1
             /\ lastEmits'[1].to = {lastOp'.sock}
             /\ \E k \in DOMAIN redis'.cmds[lastOp'.inst] :
                   /\ redis'.cmds[lastOp'.inst][k].key = ReadKey(sock[lastOp'.sock].userId)
                   /\ k > Len(redis.cmds[lastOp'.inst])]_vars

\* C30 (as claimed): every emission of an inbound event's handler that
\* names a user names the sender's authenticated userId.
C30_BroadcastNamesSender ==
    lastOp.kind = "client" =>
        \A k \in DOMAIN lastEmits :
            lastEmits[k].data.userId \in {"", sock[lastOp.sock].userId}

(***************************************************************************)
(* Specification of two gateway instances sharing one Redis server, with   *)
(* the alternative roles: u1 (system admin of o1) and u2 (viewer of o1)    *)
(* are connected to A, u2 a second time to B.  The connections of u2 send   *)
(* 'user:activity'; Redis takes the commands of the two connections in any *)
(* order.                                                                  *)
(***************************************************************************)
MaxActivity == 102

AuthedAs(us, i, tok) ==
    [NewSocket(i, tok) EXCEPT !.st = "authed",
                              !.userId = tok.userId,
                              !.organizationId = us[tok.userId].organizationId,
                              !.role = us[tok.userId].role]

ActivityClients ==
    LET sk0 == << AuthedAs(AltUsers, "A", Jwt("ok", "u1", "s1")),
                  AuthedAs(AltUsers, "A", Jwt("ok", "u2", "s2")),
                  AuthedAs(AltUsers, "B", Jwt("ok", "u2", "s2")) >>
        r1 == onConnection(sk0, <<>>, 1)
        r2 == onConnection(r1.sock, r1.cu, 2)
        r3 == onConnection(r2.sock, <<>>, 3)
    IN  [sock |-> r3.sock, cu |-> [i \in Instances |-> IF i = "A" THEN r2.cu ELSE r3.cu]]

InitActivity ==
    /\ cluster = Instances
    /\ users = AltUsers
    /\ sessions = InitSessions
    /\ sock = ActivityClients.sock
    /\ connectedUsers = ActivityClients.cu
    /\ inbox = [i \in Instances |-> <<>>]
    /\ busPlaced = 0
    /\ publishCalls = 0
    /\ lastOp = Op("init", 0, "A", "init")
    /\ lastEmits = <<>>
    /\ items = InitItems
    /\ http = NoRequest
    /\ redis = RedisOf(Instances)
    /\ errorLog = NoErrors
    /\ service = ServiceUp
    /\ suspended = <<>>
    /\ now = 1
    /\ inbound = <<>>

\* The LPUSHes on key written to a connection and not yet executed.
PendingPushes(key) ==
    LET Count(q) == Cardinality({k \in DOMAIN q : q[k].op = "lpush" /\ q[k].key = key})
    IN  Count(redis.cmds["A"]) + Count(redis.cmds["B"])

\* A 'user:activity' packet arrives on socket s.
Activity(s) ==
    /\ s \in SocketIds
    /\ Len(redis.cmds[sock[s].inst]) < MaxPending
    /\ LET key == ActivityKey(sock[s].organizationId)
       IN  redis.pushed[key] + PendingPushes(key) < MaxActivity
    /\ ClientEvent(s, "user:activity", PlainArg)

NextActivity ==
    \/ \E s \in {2, 3} : Activity(s)
    \/ \E i \in Instances : RedisExec(i)

SpecActivity == InitActivity /\ [][NextActivity]_vars

\* The instances whose next command on key is the LTRIM of a message whose
\* LPUSH Redis has executed.
TrimOwed(key) ==
    {i \in DOMAIN redis.cmds :
        /\ redis.cmds[i] /= <<>>
        /\ Head(redis.cmds[i]).op = "ltrim"
        /\ Head(redis.cmds[i]).key = key}

MaxInbound == 2

InboundOf(ss) ==
    [queue |-> [s \in ss |-> <<>>],
     sent  |-> [s \in ss |-> 0],
     done  |-> [s \in ss |-> 0],
     heard |-> [r \in ss |-> [s \in ss |-> 0]]]

\* Variant: the packet that arrived last is dispatched first.
nextPacketNewest(q) == Len(q)

\* The position in the queue of the packet socket.io dispatches next.
nextPacket(q) == 1

\* The queue without its k-th packet.
Without(q, k) == SubSeq(q, 1, k - 1) \o SubSeq(q, k + 1, Len(q))

\* The sockets handed some emission of es.
Recipients(es) == UNION {es[k].to : k \in DOMAIN es}

\* The client of socket s emits event `name`.
ClientSend(s, name) ==
    /\ s \in DOMAIN inbound.queue
    /\ Live(sock, s)
    /\ inbound.sent[s] < MaxInbound
    /\ inbound' = [inbound EXCEPT !.sent[s] = @ + 1,
                                  !.queue[s] = Append(@, [name |-> name, n |-> inbound.sent[s] + 1])]
    /\ lastOp' = Op("send", s, sock[s].inst, name)
    /\ lastEmits' = <<>>
    /\ UNCHANGED <<now, suspended, service, errorLog, redis, items, http, cluster, users, sessions, sock, connectedUsers,
                   inbox, busPlaced, publishCalls>>

\* socket.io dispatches the next packet of socket s to its listener.
Dispatch(s) ==
    /\ s \in DOMAIN inbound.queue
    /\ inbound.queue[s] /= <<>>
    /\ Len(redis.cmds[sock[s].inst]) < MaxPending
    /\ LET k == nextPacket(inbound.queue[s])
           p == inbound.queue[s][k]
       IN  /\ Handle(s, p.name, PlainArg)
           /\ inbound' = [inbound EXCEPT
                             !.queue[s] = Without(@, k),
                             !.done[s] = p.n,
                             !.heard = [r \in DOMAIN @ |->
                                           IF r \in Recipients(lastEmits')
                                             THEN [@[r] EXCEPT ![s] = p.n]
                                             ELSE @[r]]]

(***************************************************************************)
(* Specification of one gateway instance with the three clients of         *)
(* InboundClients; the connections 1 (of u1) and 3 (of u2) send events,    *)
(* one of which awaits Redis.                                              *)
(***************************************************************************)
InitOrder ==
    /\ cluster = {"A"}
    /\ users = InitUsers
    /\ sessions = InitSessions
    /\ sock = InboundClients.sock
    /\ connectedUsers = InboundClients.cu
    /\ inbox = [i \in Instances |-> <<>>]
    /\ busPlaced = 0
    /\ publishCalls = 0
    /\ lastOp = Op("init", 0, "A", "init")
    /\ lastEmits = <<>>
    /\ items = InitItems
    /\ http = NoRequest
    /\ redis = RedisOf({"A"})
    /\ errorLog = NoErrors
    /\ service = ServiceUp
    /\ suspended = <<>>
    /\ now = 1
    /\ inbound = InboundOf(1..Len(InboundClients.sock))

OrderEvents == {"inventory:item:editing", "user:location:update", "notification:read"}

NextOrder ==
    \/ \E s \in {1, 3}, name \in OrderEvents : ClientSend(s, name)
    \/ \E s \in {1, 3} : Dispatch(s)
    \/ RedisExec("A")

SpecOrder == InitOrder /\ [][NextOrder]_vars

\* C23: the packets of a connection are dispatched in the order sent, and
\* the emissions a connection is handed on behalf of one sender come in the
\* order of the packets that caused them: no step dispatches a packet
\* older than one already dispatched, nor hands a connection an emission
\* caused by a packet older than one it was handed before.
C23_PerConnectionOrder ==
    [][\A s \in DOMAIN inbound.queue :
          /\ inbound'.done[s] >= inbound.done[s]
          /\ inbound'.done[s] /= inbound.done[s] =>
                /\ inbound'.done[s] = inbound.done[s] + 1
                /\ \A r \in Recipients(lastEmits') :
                      inbound.heard[r][s] < inbound'.done[s]
          /\ \A r \in DOMAIN inbound.queue :
                inbound'.heard[r][s] >= inbound.heard[r][s]]_vars

\* C23 witness: connection 3 sent 'notification:read' and then an item
\* lock; the lock has been broadcast to connection 1, which had been handed
\* nothing of connection 3 before, while the Redis command of the first
\* message is still to run.
C23_Witness ==
    /\ lastOp.kind = "client"
    /\ lastOp.sock = 3
    /\ lastOp.name = "inventory:item:editing"
    /\ inbound.done[3] = 2
    /\ inbound.heard[1][3] = 2
    /\ redis.cmds["A"] /= <<>>
    /\ Head(redis.cmds["A"]).op = "sadd"

(***************************************************************************)
(* The two connections of the process to the bus and their reconnection.   *)
(* ioredis counts the attempts since the connection was last established   *)
(* and asks the retry strategy of the connection for the delay before the  *)
(* next one; a connection built without retryStrategy uses the library's    *)
(* default.                                                                *)
(***************************************************************************)
MaxRetries == 42

BusConnections == {"redis", "subscriber"}

\* Variant: the delay grows without a cap.
retryStrategyUncapped(times) == times * 50

\* retryStrategy: (times) => Math.min(times * 50, 2000), of `redis`
retryStrategy(times) == Min(times * 50, 2000)

\* `subscriber` is built without retryStrategy: the default of ioredis.
defaultRetryStrategy(times) == Min(times * 50, 2000)

\* The delay connection c waits before attempt number times + 1.
retryDelay(c, times) ==
    IF c = "redis" THEN retryStrategy(times) ELSE defaultRetryStrategy(times)

Ready == [status |-> "ready", times |-> 0, delay |-> 0]

\* The connection drops, or one more attempt to re-establish it fails.
ConnectionClosed(c) ==
    /\ redis.conn[c].times < MaxRetries
    /\ redis' = [redis EXCEPT !.conn[c] =
                    [status |-> "reconnecting", times |-> @.times + 1,
                     delay |-> retryDelay(c, @.times + 1)]]
    /\ lastOp' = Op("bus", 0, "A", c)
    /\ lastEmits' = <<>>
    /\ UNCHANGED <<now, suspended, service, errorLog, inbound, items, http, cluster, users, sessions, sock, connectedUsers,
                   inbox, busPlaced, publishCalls>>

\* An attempt succeeds: the count of attempts starts over.
Reconnected(c) ==
    /\ redis.conn[c].status = "reconnecting"
    /\ redis' = [redis EXCEPT !.conn[c] = Ready]
    /\ lastOp' = Op("bus", 0, "A", c)
    /\ lastEmits' = <<>>
    /\ UNCHANGED <<now, suspended, service, errorLog, inbound, items, http, cluster, users, sessions, sock, connectedUsers,
                   inbox, busPlaced, publishCalls>>

InitBus ==
    /\ cluster = {"A"}
    /\ users = InitUsers
    /\ sessions = InitSessions
    /\ sock = <<>>
    /\ connectedUsers = [i \in Instances |-> <<>>]
    /\ inbox = [i \in Instances |-> <<>>]
    /\ busPlaced = 0
    /\ publishCalls = 0
    /\ lastOp = Op("init", 0, "A", "init")
    /\ lastEmits = <<>>
    /\ items = InitItems
    /\ http = NoRequest
    /\ redis = [NoRedis EXCEPT !.conn = [c \in BusConnections |-> Ready]]
    /\ errorLog = NoErrors
    /\ service = ServiceUp
    /\ suspended = <<>>
    /\ now = 1
    /\ inbound = <<>>

NextBus ==
    \/ \E c \in BusConnections : ConnectionClosed(c)
    \/ \E c \in BusConnections : Reconnected(c)

SpecBus == InitBus /\ [][NextBus]_vars

\* C28: while either bus connection is reconnecting after its attempt
\* number times >= 1, the delay before the next attempt is 50 * times
\* milliseconds capped at 2000; and the delay never decreases from one
\* failed attempt to the next.
C28_BoundedBackoff ==
    /\ [](\A c \in BusConnections :
             redis.conn[c].status = "reconnecting" =>
                 /\ redis.conn[c].times >= 1
                 /\ redis.conn[c].delay =
                       (IF 50 * redis.conn[c].times <= 2000
                          THEN 50 * redis.conn[c].times ELSE 2000)
                 /\ redis.conn[c].delay <= 2000)
    /\ [][\A c \in BusConnections :
             (redis.conn[c].status = "reconnecting"
                 /\ redis'.conn[c].status = "reconnecting") =>
                 redis'.conn[c].delay >= redis.conn[c].delay]_vars

\* C28 witness: the subscribing connection has failed more than 40 times in
\* a row and waits 2000 ms, while the publishing connection is at its first
\* attempt and waits 50 ms.
C28_Witness ==
    /\ redis.conn["subscriber"].status = "reconnecting"
    /\ redis.conn["subscriber"].times > 40
    /\ redis.conn["subscriber"].delay = 2000
    /\ redis.conn["redis"].status = "reconnecting"
    /\ redis.conn["redis"].times = 1
    /\ redis.conn["redis"].delay = 50

(***************************************************************************)
(* Stock alerts of the quantity and update routes.                         *)
(***************************************************************************)
\* The emits of the last step that carried event to connection r.
ReceivedBy(r, event) ==
    {k \in DOMAIN lastEmits : lastEmits[k].event = event /\ r \in lastEmits[k].to}

\* C31 (as claimed): an answered quantity update hands each connection of the
\* organization room at most one 'inventory:outofstock:alert'.
C31_OneOutOfStockAlertPerUpdate ==
    Answered("POST /:itemId/quantity") =>
        \A r \in Members(sock, "A", OrgRoom(http.written.organizationId)) :
            Cardinality(ReceivedBy(r, "inventory:outofstock:alert")) <= 1

\* C32 (as claimed): an answered quantity update or item update from quantity
\* p to q emits 'inventory:lowstock:alert' if and only if p was above the
\* item's minQuantity and q is at or below it.
C32_LowStockOnCrossingOnly ==
    \A route \in {"POST /:itemId/quantity", "PATCH /:itemId"} :
        Answered(route) =>
            ((Emitted("inventory:lowstock:alert") /= {})
                <=> (/\ http.item.quantity > http.item.minQuantity
                     /\ http.written.quantity <= http.written.minQuantity))

(***************************************************************************)
(* Specification of the subscriber under messages it cannot handle: two    *)
(* instances on one bus, the publish* methods, another Redis client that   *)
(* publishes on the gateway's channels, and broadcasts that may throw.     *)
(***************************************************************************)
MaxForeign == 2

\* The types broadcastNotification's switch has a case for.
NotificationTypes == {"organization", "user", "global"}

\* What another client may publish: a text that is not JSON, and a
\* notification of a type the switch has no case for.
ForeignMessages ==
    { [Msg(c, NoMsg.data, "", {}) EXCEPT !.parses = FALSE] :
          c \in {"inventory:updates", "notifications"} }
      \cup { Msg("notifications", Data("undefined", "undefined", "role", "o1", "evt", "p"),
                 "", {}) }

\* Redis hands the subscribers a message that no publish* method wrote.
ForeignPublish(m) ==
    /\ busPlaced - publishCalls < MaxForeign
    /\ \A j \in cluster : Len(inbox[j]) < MaxBus
    /\ busPlaced' = busPlaced + 1
    /\ inbox' = Deliver(inbox, <<m>>)
    /\ lastEmits' = <<>>
    /\ lastOp' = OpMsg("foreign", 0, "A", m.channel, m)
    /\ UNCHANGED <<now, suspended, service, errorLog, redis, inbound, items, http, cluster, users, sessions, sock,
                   connectedUsers, publishCalls>>

NextFaults ==
    \/ \E i \in Instances, o \in Orgs : PublishInventoryUpdate(i, o, "evt", "p")
    \/ \E i \in Instances, type \in {"organization", "global"} :
           PublishNotification(i, type, IF type = "organization" THEN "o1" ELSE "undefined",
                               "evt", "p")
    \/ \E m \in ForeignMessages : ForeignPublish(m)
    \/ \E i \in Instances, raises \in BOOLEAN : SubscriberCallback(i, raises)

SpecFaults == InitRelay /\ [][NextFaults]_vars

\* The step is the subscriber callback of instance i on the head of its inbox.
CallbackStep(i) ==
    /\ inbox[i] /= <<>>
    /\ lastOp'.inst = i
    /\ lastOp'.kind \in {"relay", "relay error", "exit", "thrown"}
    /\ lastOp'.msg = Head(inbox[i])

UnknownType(m) ==
    m.parses /\ m.channel = "notifications" /\ m.data.type \notin NotificationTypes

\* C33 (as claimed): a bus message that is not JSON or is a notification of
\* unknown type is logged by the subscriber callback, causes no broadcast and
\* leaves registry and sockets as they were.
C33_UnhandledIsLogged ==
    [][\A i \in Instances :
          (CallbackStep(i) /\ (~Head(inbox[i]).parses \/ UnknownType(Head(inbox[i])))) =>
              /\ errorLog'[i] = errorLog[i] + 1
              /\ lastEmits' = <<>>
              /\ sock' = sock
              /\ connectedUsers' = connectedUsers]_vars

\* C33 (amended): the callback never ends its instance nor touches registry
\* and sockets, and the rest of the inbox stays queued; a message that is not
\* JSON, or whose broadcast throws, is logged and broadcasts nothing; a
\* notification of unknown type broadcasts nothing and is not logged; every
\* other message is rebroadcast as the switch says, whatever was logged before.
C33_FaultsAreContained ==
    [][\A i \in Instances :
          CallbackStep(i) =>
              LET m == Head(inbox[i]) IN
              /\ cluster' = cluster
              /\ sock' = sock
              /\ connectedUsers' = connectedUsers
              /\ inbox'[i] = Tail(inbox[i])
              /\ ~m.parses => lastOp'.kind = "relay error"
              /\ UnknownType(m) => (lastOp'.kind = "relay" /\ lastEmits' = <<>>)
              /\ lastOp'.kind = "relay error" =>
                     (lastEmits' = <<>> /\ errorLog'[i] = errorLog[i] + 1)
              /\ lastOp'.kind = "relay" =>
                     /\ errorLog'[i] = errorLog[i]
                     /\ lastEmits' = onRedisMessage(sock, i, m.channel, m.data).emits]_vars

\* C33 witness: an instance that has logged a bus error rebroadcast a later
\* message to a connection.
C33_Witness ==
    /\ lastOp.kind = "relay"
    /\ errorLog[lastOp.inst] > 0
    /\ lastEmits /= <<>>
    /\ lastEmits[1].to /= {}

(***************************************************************************)
(* Specification of the module-level service: processes that start with    *)
(* socketService null, the calls that initialize and fetch it, then        *)
(* handshakes, connections and bus traffic on the initialized processes.   *)
(***************************************************************************)
MaxCalls == 2
MaxServiceSockets == 1

InitializeWebSocketCall(i) ==
    /\ service[i].calls < MaxCalls
    /\ service' = [service EXCEPT ![i] =
                      [initializeWebSocket(service[i]) EXCEPT !.calls = @ + 1]]
    /\ cluster' = cluster \cup {i}
    /\ lastOp' = Op("initializeWebSocket", 0, i, "initializeWebSocket")
    /\ lastEmits' = <<>>
    /\ UNCHANGED <<now, suspended, errorLog, redis, inbound, items, http, users, sessions, sock,
                   connectedUsers, inbox, busPlaced, publishCalls>>

GetWebSocketServiceCall(i) ==
    /\ service' = [service EXCEPT ![i] = getWebSocketService(service[i])]
    /\ lastOp' = Op("getWebSocketService", 0, i, "getWebSocketService")
    /\ lastEmits' = <<>>
    /\ UNCHANGED <<now, suspended, errorLog, redis, inbound, items, http, cluster, users, sessions, sock,
                   connectedUsers, inbox, busPlaced, publishCalls>>

InitService ==
    /\ cluster = {}
    /\ users = InitUsers
    /\ sessions = InitSessions
    /\ sock = <<>>
    /\ connectedUsers = [i \in Instances |-> <<>>]
    /\ inbox = [i \in Instances |-> <<>>]
    /\ busPlaced = 0
    /\ publishCalls = 0
    /\ lastOp = Op("init", 0, "A", "init")
    /\ lastEmits = <<>>
    /\ items = InitItems
    /\ http = NoRequest
    /\ redis = NoRedis
    /\ errorLog = NoErrors
    /\ service = [i \in Instances |-> NoService]
    /\ suspended = <<>>
    /\ now = 1
    /\ inbound = <<>>

NextService ==
    \/ \E i \in Instances : InitializeWebSocketCall(i)
    \/ \E i \in Instances : GetWebSocketServiceCall(i)
    \/ \E s \in 1..MaxServiceSockets : HandshakeStart(s, "A", Jwt("ok", "u1", "s1"))
    \/ \E s \in 1..MaxServiceSockets : HandshakeSession(s)
    \/ \E s \in 1..MaxServiceSockets : HandshakeUser(s)
    \/ \E s \in 1..MaxServiceSockets : Connection(s)
    \/ \E i \in Instances : PublishInventoryUpdate(i, "o1", "evt", "p")
    \/ \E i \in Instances : SubscriberMessage(i)

SpecService == InitService /\ [][NextService]_vars

\* What a call leaves of the service besides its own outcome.
ServiceKept(sv) == [sv EXCEPT !.returned = 0, !.error = "", !.calls = 0]

\* C34: a process holds at most one service, with one 'message' and one
\* 'connection' listener, however often initializeWebSocket is called; every
\* call returns the service of the first call; getWebSocketService returns it
\* once it exists and raises 'WebSocket service not initialized' before,
\* creating nothing; one bus message causes the one broadcast of the switch.
C34_Singleton ==
    /\ [](\A i \in Instances :
            LET sv == service[i] IN
            /\ sv.constructed = (IF sv.calls > 0 THEN 1 ELSE 0)
            /\ sv.socketService = sv.constructed
            /\ sv.messageListeners = sv.constructed
            /\ sv.connectionListeners = sv.constructed
            /\ (lastOp.kind = "initializeWebSocket" /\ lastOp.inst = i) =>
                   (sv.returned = 1 /\ sv.error = "")
            /\ (lastOp.kind = "getWebSocketService" /\ lastOp.inst = i) =>
                   IF sv.calls > 0
                     THEN sv.returned = 1 /\ sv.error = ""
                     ELSE sv.returned = 0 /\ sv.error = "WebSocket service not initialized")
    /\ [][\A i \in Instances :
            /\ (lastOp'.kind = "getWebSocketService" /\ lastOp'.inst = i) =>
                   (ServiceKept(service'[i]) = ServiceKept(service[i]) /\ cluster' = cluster)
            /\ CallbackStep(i) =>
                   lastEmits' = onRedisMessage(sock, i, Head(inbox[i]).channel,
                                               Head(inbox[i]).data).emits]_vars

\* C34 witness: after a second initializeWebSocket call on the instance, a bus
\* message was broadcast once to a connection.
C34_Witness ==
    /\ lastOp.kind = "relay"
    /\ service[lastOp.inst].calls >= 2
    /\ Len(lastEmits) = 1
    /\ lastEmits[1].to /= {}

(***************************************************************************)
(* The presence views (getConnectedUsers, getOnlineUsersInOrganization).  *)
(***************************************************************************)
\* getConnectedUsers(): Array.from(this.connectedUsers.keys())
getConnectedUsers(cu, i) == DOMAIN cu[i]

RECURSIVE onlineUsersNoTest(_, _, _, _)
\* Variant: every member socket's userId is pushed.
onlineUsersNoTest(sk, i, room, s) ==
    IF s = 0 THEN <<>>
    ELSE LET found == onlineUsersNoTest(sk, i, room, s - 1)
         IN  IF s \in Members(sk, i, room) /\ sk[s].userId /= ""
               THEN Append(found, sk[s].userId)
               ELSE found

RECURSIVE onlineUsers(_, _, _, _)
\* room.forEach(socketId => { if (socket?.userId && !users.includes(socket.userId))
\* users.push(socket.userId) }) over the first s sockets
onlineUsers(sk, i, room, s) ==
    IF s = 0 THEN <<>>
    ELSE LET found == onlineUsers(sk, i, room, s - 1)
         IN  IF /\ s \in Members(sk, i, room)
                /\ sk[s].userId /= ""
                /\ \A k \in DOMAIN found : found[k] /= sk[s].userId
               THEN Append(found, sk[s].userId)
               ELSE found

\* getOnlineUsersInOrganization(organizationId) on instance i
getOnlineUsersInOrganization(sk, i, o) == onlineUsers(sk, i, OrgRoom(o), Len(sk))

\* C35: on every instance and for every organization o,
\* getOnlineUsersInOrganization(o) lists, each once, exactly the registry keys
\* whose principal belongs to o, and getConnectedUsers() is exactly the set of
\* principals with a live connection.
C35_PresenceViewsAgree ==
    \A i \in Instances :
        /\ getConnectedUsers(connectedUsers, i) = {u \in DOMAIN users : LiveOf(i, u) /= {}}
        /\ \A o \in Orgs :
              LET online == getOnlineUsersInOrganization(sock, i, o) IN
              /\ \A j, k \in DOMAIN online : online[j] = online[k] => j = k
              /\ {online[k] : k \in DOMAIN online} =
                     {u \in DOMAIN connectedUsers[i] : users[u].organizationId = o}

\* C35 witness: a principal of o1 holds two live connections on A beside
\* another principal of o1, and the view lists the two principals.
C35_Witness ==
    /\ \E u \in DOMAIN connectedUsers["A"] : Cardinality(connectedUsers["A"][u]) = 2
    /\ Len(getOnlineUsersInOrganization(sock, "A", "o1")) = 2

(***************************************************************************)
(* Specification of the inventory routes serving requests concurrently: a  *)
(* handler that reaches an await is set aside and another request is       *)
(* begun or resumed.  The database answers every write.                    *)
(***************************************************************************)
MaxSuspended == 1

\* The handler being served waits at an await (its lookup or its write has
\* been sent); the event loop turns to other work.
Await ==
    /\ http.pc \in {"write", "emit"}
    /\ Len(suspended) < MaxSuspended
    /\ suspended' = Append(suspended, http)
    /\ http' = NoRequest
    /\ lastOp' = Op("await", 0, "A", http.route)
    /\ lastEmits' = <<>>
    /\ UNCHANGED <<now, service, errorLog, redis, inbound, items, cluster, users, sessions, sock,
                   connectedUsers, inbox, busPlaced, publishCalls>>

\* The await of the k-th waiting handler is answered and the handler goes on.
Resume(k) ==
    /\ http.pc \in {"idle", "done"}
    /\ k \in DOMAIN suspended
    /\ http' = suspended[k]
    /\ suspended' = Without(suspended, k)
    /\ lastOp' = Op("resume", 0, "A", suspended[k].route)
    /\ lastEmits' = <<>>
    /\ UNCHANGED <<now, service, errorLog, redis, inbound, items, cluster, users, sessions, sock,
                   connectedUsers, inbox, busPlaced, publishCalls>>

\* The table starts empty or with one item of o1.
InitConcurrent ==
    /\ cluster = {"A"}
    /\ users = InitUsers
    /\ sessions = InitSessions
    /\ sock = InventoryClients.sock
    /\ connectedUsers = InventoryClients.cu
    /\ inbox = [i \in Instances |-> <<>>]
    /\ busPlaced = 0
    /\ publishCalls = 0
    /\ lastOp = Op("init", 0, "A", "init")
    /\ lastEmits = <<>>
    /\ items \in {InitItems, <<>>}
    /\ http = NoRequest
    /\ redis = NoRedis
    /\ errorLog = NoErrors
    /\ service = ServiceUp
    /\ suspended = <<>>
    /\ now = 1
    /\ inbound = <<>>

NextConcurrent ==
    \/ \E sku \in {"k1", "k2"} : RouteBegin("POST /", "u1", 0, Body(TRUE, sku, 1, 1))
    \/ \E q \in 0..MaxQuantity :
           RouteBegin("POST /:itemId/quantity", "u2", 1, Body(TRUE, "", q, -1))
    \/ RouteWrite("ok")
    \/ RouteEmit(Len(routeEmits(sock, "A", http)) + 1)
    \/ Await
    \/ \E k \in 1..MaxSuspended : Resume(k)

SpecConcurrent == InitConcurrent /\ [][NextConcurrent]_vars

Abs(n) == IF n < 0 THEN -n ELSE n

\* The movement the quantity route inserts: type and quantity come from the
\* difference to the row the handler read.
movementOf(item, body) ==
    [type |-> IF body.quantity - item.quantity > 0 THEN "in" ELSE "out",
     quantity |-> Abs(body.quantity - item.quantity)]

\* C36 (as claimed): an answered quantity update has recorded a movement if
\* and only if it changed the stored quantity; the movement's amount is the
\* distance between the quantity it replaced and the one it stored, its type
\* 'in' for an increase and 'out' for a decrease; and the previousQuantity of
\* its 'inventory:quantity:changed' event is the quantity it replaced.
C36_MovementMatchesStoredChange ==
    Answered("POST /:itemId/quantity") =>
        LET q == http.body.quantity
            before == http.replaced
        IN  /\ http.movement <=> (q /= before)
            /\ http.movement =>
                   /\ movementOf(http.item, http.body).quantity = Abs(q - before)
                   /\ movementOf(http.item, http.body).type =
                          (IF q > before THEN "in" ELSE "out")
            /\ \A k \in Emitted("inventory:quantity:changed") :
                   lastEmits[k].data.previousQuantity = before

\* C37 (as claimed): no organization holds two items with the same SKU.
C37_SkuUniquePerOrganization ==
    \A a, b \in DOMAIN items :
        (items[a].organizationId = items[b].organizationId /\ items[a].sku = items[b].sku)
            => a = b


(***************************************************************************)
(* Rotation of a session's tokens by POST /auth/refresh.                   *)
(***************************************************************************)
\* The access tokens authenticate accepts for session s.
AcceptedAccess(s) ==
    {tok \in AuthTokens :
        tok.sessionId = s /\ authenticate(sessions, users, tok).error = ""}

\* The refresh tokens POST /auth/refresh accepts for session s.
AcceptedRefresh(s) ==
    {r \in RefreshTokens : r.sessionId = s /\ refresh(sessions, r, now).status = 200}

\* A refresh that answered 200 left the token it was given rejected with 401
\* and the access token the session stored before it rejected by authenticate.
RefreshRetires ==
    (lastOp'.name = "POST /auth/refresh" /\ http'.status = 200) =>
        /\ refresh(sessions', http'.token, now').status = 401
        /\ authenticate(sessions', users',
                        sessions[http'.token.sessionId].token).error /= ""

\* C38 (as claimed): a successful refresh with refresh token r stores a new
\* access token and a new refresh token, so that a second refresh presenting
\* r is answered 401 and the access token issued before is rejected by
\* authenticate; and at every time at most one access token and one refresh
\* token are accepted for a session.
C38_RefreshRotates ==
    /\ [](\A s \in DOMAIN sessions :
             /\ Cardinality(AcceptedAccess(s)) <= 1
             /\ Cardinality(AcceptedRefresh(s)) <= 1)
    /\ [][RefreshRetires]_vars

=============================================================================
